---- MODULE Spec2Model ----
(***************************************************************************)
(* Model of the archive tool's TAR reader (extractTar) and of the file     *)
(* name decoder it calls (smartDecodeFileName).                            *)
(*                                                                         *)
(* A byte is a number 0..255, a byte buffer is read through getUint8, and  *)
(* a JavaScript string is the sequence of its UTF-16 code units.           *)
(***************************************************************************)
EXTENDS Integers, Sequences, FiniteSets, TLC

\* ------------------------------------------------------------------ bounds
\* Longest buffer, in whole 512-byte blocks, among the freely composed inputs.
MaxBlocks == 3
\* Most entries of a regularly built archive among the inputs.
MaxEntries == 2
\* Most iterations of one scan the model follows (a scan whose cursor does not
\* move forward iterates without end).
MaxIterations == 5

\* ------------------------------------------------------- program constants
BlockSize == 512
NameFieldLen == 100
SizeFieldStart == 124
SizeFieldEnd == 136
TypeFlagOffset == 156
OctalRadix == 8
TypeNul == 0
TypeZeroChar == 48
Slash == 47
ReplacementChar == 65533

\* The number NaN, as parseInt returns it.
NaN == [nan |-> TRUE, value |-> 0]

\* ----------------------------------------------------------- small helpers
Min(a, b) == IF a < b THEN a ELSE b
Max(a, b) == IF a > b THEN a ELSE b

\* Math.ceil(n / d) for an integer n and d > 0 (TLA+ \div rounds down).
MathCeilDiv(n, d) == -((-n) \div d)

\* ------------------------------------------------------------ byte buffers
\* A buffer is a run of whole blocks followed by a tail shorter than a block.
\* A block is stored by its three header fields; every other byte of it is 0:
\*   bytes 0..99 name, bytes 124..135 size, byte 156 type.
BlockByte(b, j) ==
    IF j < NameFieldLen
    THEN (IF j < Len(b.name) THEN b.name[j + 1] ELSE 0)
    ELSE IF j >= SizeFieldStart /\ j < SizeFieldEnd
    THEN (IF j - SizeFieldStart < Len(b.size) THEN b.size[j - SizeFieldStart + 1] ELSE 0)
    ELSE IF j = TypeFlagOffset THEN b.type
    ELSE 0

byteLength(buf) == BlockSize * Len(buf.blocks) + Len(buf.tail)

InRange(buf, i) == i >= 0 /\ i < byteLength(buf)

\* DataView.getUint8 for an index in range (out of range it throws RangeError).
getUint8(buf, i) ==
    IF i < BlockSize * Len(buf.blocks)
    THEN BlockByte(buf.blocks[(i \div BlockSize) + 1], i % BlockSize)
    ELSE buf.tail[i - BlockSize * Len(buf.blocks) + 1]

\* ArrayBuffer.prototype.slice(begin, end): both ends are clamped to the buffer.
ArrayBufferSlice(buf, begin, end) ==
    LET first == Min(Max(begin, 0), byteLength(buf))
        final == Min(Max(end, 0), byteLength(buf))
        n == Max(final - first, 0)
    IN [i \in 1..n |-> getUint8(buf, first + i - 1)]

\* ------------------------------------------------------- file name decoder
\* UTF-16 code units of one code point, as String.fromCodePoint gives them.
CodeUnits(cp) ==
    IF cp < 65536 THEN <<cp>>
    ELSE <<55296 + ((cp - 65536) \div 1024), 56320 + ((cp - 65536) % 1024)>>

\* TextDecoder('ascii') and TextDecoder('latin1') are both the windows-1252
\* decoder: one code unit per byte, 0x80..0x9F through its table.
Windows1252High ==
    <<8364, 129, 8218, 402, 8222, 8230, 8224, 8225, 710, 8240, 352, 8249, 338, 141, 381, 143,
      144, 8216, 8217, 8220, 8221, 8226, 8211, 8212, 732, 8482, 353, 8250, 339, 157, 382, 376>>

Windows1252Decode(bytes) ==
    [i \in 1..Len(bytes) |->
        IF bytes[i] >= 128 /\ bytes[i] <= 159 THEN Windows1252High[bytes[i] - 127]
        ELSE bytes[i]]

\* Number of continuation bytes a UTF-8 lead byte asks for, -1 for no lead byte.
Utf8Needed(b) ==
    IF b <= 127 THEN 0
    ELSE IF b >= 194 /\ b <= 223 THEN 1
    ELSE IF b >= 224 /\ b <= 239 THEN 2
    ELSE IF b >= 240 /\ b <= 244 THEN 3
    ELSE -1

\* Allowed range of the first continuation byte after lead byte b.
Utf8Lower(b) == IF b = 224 THEN 160 ELSE IF b = 240 THEN 144 ELSE 128
Utf8Upper(b) == IF b = 237 THEN 159 ELSE IF b = 244 THEN 143 ELSE 191

Utf8Payload(b, n) ==
    IF n = 0 THEN b ELSE IF n = 1 THEN b - 192 ELSE IF n = 2 THEN b - 224 ELSE b - 240

RECURSIVE Utf8CodePoint(_, _, _, _)
Utf8CodePoint(bytes, i, n, acc) ==
    IF n = 0 THEN acc ELSE Utf8CodePoint(bytes, i + 1, n - 1, acc * 64 + (bytes[i] - 128))

\* new TextDecoder('utf-8', {fatal: true}).decode(bytes) from index i on:
\* [ok |-> FALSE] where the real decoder throws TypeError.
RECURSIVE Utf8From(_, _)
Utf8From(bytes, i) ==
    IF i > Len(bytes) THEN [ok |-> TRUE, str |-> <<>>]
    ELSE
        LET b == bytes[i]
            n == Utf8Needed(b)
            wellFormed ==
                /\ n >= 0
                /\ i + n <= Len(bytes)
                /\ \A k \in 1..n :
                      /\ bytes[i + k] >= (IF k = 1 THEN Utf8Lower(b) ELSE 128)
                      /\ bytes[i + k] <= (IF k = 1 THEN Utf8Upper(b) ELSE 191)
        IN  IF ~wellFormed THEN [ok |-> FALSE, str |-> <<>>]
            ELSE
                LET rest == Utf8From(bytes, i + n + 1)
                    cp == Utf8CodePoint(bytes, i + 1, n, Utf8Payload(b, n))
                IN  IF ~rest.ok THEN rest
                    ELSE [ok |-> TRUE, str |-> CodeUnits(cp) \o rest.str]

\* The decoder drops one leading byte order mark (ignoreBOM is not set).
Utf8StrictDecode(bytes) ==
    IF Len(bytes) >= 3 /\ bytes[1] = 239 /\ bytes[2] = 187 /\ bytes[3] = 191
    THEN Utf8From(bytes, 4)
    ELSE Utf8From(bytes, 1)

\* The legacy decoders never throw: a sequence they cannot map becomes U+FFFD.
\* Their index tables belong to the platform. An index gives the code units of
\* an entry, <<>> where the table has none; apart from the entries named here
\* an entry is a code unit of its own (table base + pointer). The inputs of the
\* specifications reach only pointers whose entries are as defined here.
GbkIndex(pointer) == IF pointer = 12892 THEN <<20320>> ELSE <<2000000 + pointer>>

\* Four-byte sequences of GBK (gb18030 ranges): pointers from 189000 on are the
\* code points from U+10000 on.
Gb18030RangesIndex(pointer) ==
    IF (pointer > 39419 /\ pointer < 189000) \/ pointer > 1237575 THEN <<>>
    ELSE IF pointer >= 189000 THEN CodeUnits(65536 + pointer - 189000)
    ELSE IF pointer = 0 THEN <<128>>
    ELSE <<5000000 + pointer>>

\* Big5 has no entry below pointer 942, and four pointers give two code points.
Big5Index(pointer) ==
    IF pointer < 942 THEN <<>>
    ELSE IF pointer = 1133 THEN <<202, 772>>
    ELSE IF pointer = 1135 THEN <<202, 780>>
    ELSE IF pointer = 1164 THEN <<234, 772>>
    ELSE IF pointer = 1166 THEN <<234, 780>>
    ELSE <<3000000 + pointer>>

\* Shift_JIS maps pointers 8836..10715 to U+E000 onwards.
Jis0208Index(pointer) ==
    IF pointer >= 8836 /\ pointer <= 10715 THEN <<57344 - 8836 + pointer>>
    ELSE <<4000000 + pointer>>

IsGbk(enc) == enc \in {"gbk", "gb2312"}

IsTrail(enc, b) ==
    IF enc = "big5" THEN (b >= 64 /\ b <= 126) \/ (b >= 161 /\ b <= 254)
    ELSE IF enc = "shift-jis" THEN (b >= 64 /\ b <= 126) \/ (b >= 128 /\ b <= 252)
    ELSE (b >= 64 /\ b <= 126) \/ (b >= 128 /\ b <= 254)

IsLead(enc, b) ==
    IF enc = "shift-jis" THEN (b >= 129 /\ b <= 159) \/ (b >= 224 /\ b <= 252)
    ELSE b >= 129 /\ b <= 254

IsDigit(b) == b >= 48 /\ b <= 57

\* Code unit of a single byte that is no lead byte.
LegacySingle(enc, b) ==
    IF b <= 127 THEN b
    ELSE IF enc = "shift-jis" /\ b = 128 THEN 128
    ELSE IF enc = "shift-jis" /\ b >= 161 /\ b <= 223 THEN 65377 - 161 + b
    ELSE IF IsGbk(enc) /\ b = 128 THEN 8364
    ELSE ReplacementChar

\* Code units of lead byte and second byte b, <<>> where the pair is an error.
LegacyPair(enc, lead, b) ==
    IF ~IsTrail(enc, b) THEN <<>>
    ELSE IF enc = "big5"
    THEN Big5Index((lead - 129) * 157 + (b - (IF b < 127 THEN 64 ELSE 98)))
    ELSE IF enc = "shift-jis"
    THEN Jis0208Index((lead - (IF lead < 160 THEN 129 ELSE 193)) * 188
                      + (b - (IF b < 127 THEN 64 ELSE 65)))
    ELSE GbkIndex((lead - 129) * 190 + (b - (IF b < 127 THEN 64 ELSE 65)))

Gb18030Pointer(b1, b2, b3, b4) ==
    (b1 - 129) * 12600 + (b2 - 48) * 1260 + (b3 - 129) * 10 + (b4 - 48)

\* new TextDecoder(enc).decode(bytes) from index i on ('gb2312' is a label of GBK).
\* After an error an ASCII second byte is read again; GBK reads again from the
\* second byte of a four-byte sequence that breaks off, and a sequence cut by
\* the end of the input is one U+FFFD.
RECURSIVE LegacyFrom(_, _, _)
LegacyFrom(enc, bytes, i) ==
    IF i > Len(bytes) THEN <<>>
    ELSE
        LET b == bytes[i]
        IN  IF ~IsLead(enc, b) THEN <<LegacySingle(enc, b)>> \o LegacyFrom(enc, bytes, i + 1)
            ELSE IF i = Len(bytes) THEN <<ReplacementChar>>
            ELSE IF IsGbk(enc) /\ IsDigit(bytes[i + 1])
            THEN IF i + 1 = Len(bytes) THEN <<ReplacementChar>>
                 ELSE IF ~(bytes[i + 2] >= 129 /\ bytes[i + 2] <= 254)
                 THEN <<ReplacementChar>> \o LegacyFrom(enc, bytes, i + 1)
                 ELSE IF i + 2 = Len(bytes) THEN <<ReplacementChar>>
                 ELSE IF ~IsDigit(bytes[i + 3])
                 THEN <<ReplacementChar>> \o LegacyFrom(enc, bytes, i + 1)
                 ELSE
                     LET c == Gb18030RangesIndex(
                                  Gb18030Pointer(b, bytes[i + 1], bytes[i + 2], bytes[i + 3]))
                     IN  (IF c = <<>> THEN <<ReplacementChar>> ELSE c)
                         \o LegacyFrom(enc, bytes, i + 4)
            ELSE
                LET c == LegacyPair(enc, b, bytes[i + 1])
                IN  IF c # <<>> THEN c \o LegacyFrom(enc, bytes, i + 2)
                    ELSE IF bytes[i + 1] <= 127
                    THEN <<ReplacementChar>> \o LegacyFrom(enc, bytes, i + 1)
                    ELSE <<ReplacementChar>> \o LegacyFrom(enc, bytes, i + 2)

LegacyDecode(enc, bytes) == LegacyFrom(enc, bytes, 1)

replacementCount(decoded) ==
    Cardinality({i \in 1..Len(decoded) : decoded[i] = ReplacementChar})

\* The ratio test with a ratio of exactly 0.1 let through.
RatioAccepted_AtMostTenth(decoded) ==
    Len(decoded) > 0 /\ 10 * replacementCount(decoded) <= Len(decoded)

\* replacementCount / decoded.length < 0.1; 0 / 0 is NaN and NaN < 0.1 is false.
\* For lengths a string can have, the quotient of two integers rounds below
\* the double 0.1 exactly when it is below one tenth.
RatioAccepted(decoded) ==
    Len(decoded) > 0 /\ 10 * replacementCount(decoded) < Len(decoded)

\* encodings with Shift_JIS tried first.
encodings_ShiftJisFirst == <<"shift-jis", "gbk", "gb2312", "big5">>

encodings == <<"gbk", "gb2312", "big5", "shift-jis">>

RECURSIVE TryEncodings(_, _)
TryEncodings(bytes, k) ==
    IF k > Len(encodings) THEN Windows1252Decode(bytes)
    ELSE IF RatioAccepted(LegacyDecode(encodings[k], bytes))
    THEN LegacyDecode(encodings[k], bytes)
    ELSE TryEncodings(bytes, k + 1)

\* isAscii with the byte 127 taken as non-ASCII.
isAscii_BelowDel(bytes) == \A i \in 1..Len(bytes) : bytes[i] < 127

isAscii(bytes) == \A i \in 1..Len(bytes) : bytes[i] <= 127

smartDecodeFileName(bytes) ==
    IF isAscii(bytes) THEN Windows1252Decode(bytes)
    ELSE IF Utf8StrictDecode(bytes).ok THEN Utf8StrictDecode(bytes).str
    ELSE TryEncodings(bytes, 1)

\* ------------------------------------------------------------- tar headers
\* Index (from 0) of the first position of start..limit-1 whose byte is in
\* `stops`, or limit when there is none: where the copying loops break.
RECURSIVE FirstStop(_, _, _, _, _)
FirstStop(buf, base, i, limit, stops) ==
    IF i >= limit \/ getUint8(buf, base + i) \in stops THEN i
    ELSE FirstStop(buf, base, i + 1, limit, stops)

\* The zero-block test of the loop: no byte of the block at offset is non-zero.
isEnd(buf, offset) ==
    ~(\E i \in 0..(BlockSize - 1) :
        offset + i < byteLength(buf) /\ getUint8(buf, offset + i) # 0)

\* fileNameBytes.slice(0, fileNameLength): the name field up to its first NUL.
fileNameBytes(buf, offset) ==
    LET fileNameLength == FirstStop(buf, offset, 0, NameFieldLen, {0})
    IN [i \in 1..fileNameLength |-> getUint8(buf, offset + i - 1)]

fileName(buf, offset) == smartDecodeFileName(fileNameBytes(buf, offset))

\* sizeStr: the characters of the size field up to its first NUL or space.
sizeStr(buf, offset) ==
    LET stop == FirstStop(buf, offset, SizeFieldStart, SizeFieldEnd, {0, 32})
    IN [i \in 1..(stop - SizeFieldStart) |-> getUint8(buf, offset + SizeFieldStart + i - 1)]

\* White space of String.prototype.trim and parseInt among the code units 0..255.
WhiteSpace == {9, 10, 11, 12, 13, 32, 160}

RECURSIVE TrimStart(_)
TrimStart(s) ==
    IF s # <<>> /\ Head(s) \in WhiteSpace THEN TrimStart(Tail(s)) ELSE s

RECURSIVE TrimEnd(_)
TrimEnd(s) ==
    IF s # <<>> /\ s[Len(s)] \in WhiteSpace THEN TrimEnd(SubSeq(s, 1, Len(s) - 1)) ELSE s

trim(s) == TrimEnd(TrimStart(s))

IsRadixDigit(c, radix) == c >= 48 /\ c < 48 + radix

\* Value of the longest run of digits at the head of s, continuing acc.
RECURSIVE DigitsValue(_, _, _)
DigitsValue(s, radix, acc) ==
    IF s = <<>> \/ ~IsRadixDigit(Head(s), radix) THEN acc
    ELSE DigitsValue(Tail(s), radix, acc * radix + (Head(s) - 48))

\* parseInt(s, radix) for radix 8: leading white space, an optional sign, then
\* the longest run of digits; NaN when that run is empty.
parseInt(s, radix) ==
    LET t == TrimStart(s)
        signed == t # <<>> /\ Head(t) \in {43, 45}
        digits == IF signed THEN Tail(t) ELSE t
        magnitude == DigitsValue(digits, radix, 0)
    IN  IF digits = <<>> \/ ~IsRadixDigit(Head(digits), radix) THEN NaN
        ELSE IF signed /\ Head(t) = 45 THEN [nan |-> FALSE, value |-> -magnitude]
        ELSE [nan |-> FALSE, value |-> magnitude]

\* parseInt(sizeStr.trim(), 8) || 0
fileSize(buf, offset) ==
    LET parsed == parseInt(trim(sizeStr(buf, offset)), OctalRadix)
    IN IF parsed.nan THEN 0 ELSE parsed.value

fileType(buf, offset) == getUint8(buf, offset + TypeFlagOffset)

endsWithSlash(name) == name # <<>> /\ name[Len(name)] = Slash

\* IsStored without the test of the name: directories named "x/" are stored.
IsStored_IgnoresName(buf, offset) ==
    /\ fileSize(buf, offset) > 0
    /\ fileType(buf, offset) \in {TypeNul, TypeZeroChar}

\* The condition under which the header at offset is stored as an entry.
IsStored(buf, offset) ==
    /\ fileSize(buf, offset) > 0
    /\ ~endsWithSlash(fileName(buf, offset))
    /\ fileType(buf, offset) \in {TypeNul, TypeZeroChar}

\* The loop condition: offset < arrayBuffer.byteLength - 512
LoopCondition(buf, offset) == offset < byteLength(buf) - BlockSize

\* The payload advance: Math.ceil(fileSize / 512) * 512
PayloadAdvance(size) == MathCeilDiv(size, BlockSize) * BlockSize

\* fileName.split('/').pop()
RECURSIVE LastSegment(_, _)
LastSegment(name, acc) ==
    IF name = <<>> THEN acc
    ELSE IF Head(name) = Slash THEN LastSegment(Tail(name), <<>>)
    ELSE LastSegment(Tail(name), Append(acc, Head(name)))

\* The entry object built for the header at offset (its content is read at the
\* cursor after the header).
EntryAt(buf, offset) ==
    LET content == ArrayBufferSlice(buf, offset + BlockSize,
                                    offset + BlockSize + fileSize(buf, offset))
    IN [name |-> LastSegment(fileName(buf, offset), <<>>),
        path |-> fileName(buf, offset),
        size |-> Len(content),
        content |-> content]

\* obj[key] = value on a plain object: the key "__proto__" reaches the setter
\* inherited from Object.prototype and creates no own property.
ProtoKey == <<95, 95, 112, 114, 111, 116, 111, 95, 95>>

ObjectSet(obj, key, value) ==
    IF key = ProtoKey THEN obj
    ELSE [k \in (DOMAIN obj) \cup {key} |-> IF k = key THEN value ELSE obj[k]]

ObjectKeys(obj) == DOMAIN obj

\* Math.floor((processedFiles / Math.max(fileCount / 10, 1)) * 100)
ProgressValue(processed, buf) ==
    LET fileCount == byteLength(buf) \div BlockSize
    IN  IF fileCount <= 10 THEN processed * 100
        ELSE (processed * 1000) \div fileCount

\* ------------------------------------------------------------------ inputs
\* Text of the fields, as character codes.
NameATxt == <<97, 46, 116, 120, 116>>            \* "a.txt"
NameB == <<98>>                                  \* "b"
NameC == <<99>>                                  \* "c"
NameDir == <<100, 47>>                           \* "d/"
Hello == <<104, 101, 108, 108, 111>>             \* "hello"
Size5 == <<53>>                                  \* "5"
Size5Padded == <<48, 48, 48, 48, 48, 48, 48, 48, 48, 48, 53>>   \* "00000000005"
Size513 == <<49, 48, 48, 49>>                    \* "1001"
SizeOneX == <<49, 120>>                          \* "1x"
SizeX == <<120>>                                 \* "x"
SizeMinus512 == <<45, 49, 48, 48, 48>>           \* "-1000"
SizeMinus2048 == <<45, 52, 48, 48, 48>>          \* "-4000"
NameBom == <<239, 187, 191>>                     \* EF BB BF, a UTF-8 byte order mark alone
\* '5', the type flag of a directory entry.
TypeDirChar == 48 + 5

Block(n, s, t) == [name |-> n, size |-> s, type |-> t]
ZeroBlock == Block(<<>>, <<>>, 0)

\* The blocks the freely composed inputs are made of.
Blocks ==
    { ZeroBlock,
      Block(NameATxt, Size5, TypeZeroChar),
      Block(NameB, Size513, TypeNul),
      Block(NameDir, Size5, TypeZeroChar),
      Block(NameATxt, Size5, TypeDirChar),
      Block(Hello, <<>>, TypeNul),
      Block(NameC, SizeOneX, TypeZeroChar),
      Block(NameC, SizeX, TypeZeroChar),
      Block(NameC, SizeMinus512, TypeZeroChar),
      Block(NameC, SizeMinus2048, TypeZeroChar),
      Block(<<>>, Size5, TypeZeroChar),
      Block(NameBom, Size5, TypeZeroChar) }

\* Tails: none, or one byte.
Tails == { <<>>, <<104>> }

SeqsUpTo(S, n) == UNION { [1..k -> S] : k \in 0..n }

FreeBuffers == { [blocks |-> bs, tail |-> t] : bs \in SeqsUpTo(Blocks, MaxBlocks), t \in Tails }

\* Regularly built archives: each entry a header and its payload padded to
\* whole blocks, then one zero block.
EntryNames == { NameATxt, NameB, ProtoKey }
EntrySizes == { Size5Padded, Size513 }
Entries == { [name |-> n, size |-> s, type |-> t] :
                n \in EntryNames, s \in EntrySizes, t \in {TypeZeroChar} }

EntrySize(e) == DigitsValue(e.size, OctalRadix, 0)

\* k-th payload block of entry e: its bytes name the entry and the block.
PayloadBlock(e, k) == Block(<<48 + k>> \o e.name, <<>>, TypeNul)

EntryBlocks(e) ==
    <<Block(e.name, e.size, e.type)>>
    \o [k \in 1..MathCeilDiv(EntrySize(e), BlockSize) |-> PayloadBlock(e, k)]

\* The payload bytes of entry e, as the archive was built.
EntryPayload(e) ==
    [i \in 1..EntrySize(e) |->
        BlockByte(PayloadBlock(e, ((i - 1) \div BlockSize) + 1), (i - 1) % BlockSize)]

RECURSIVE ArchiveBlocks(_)
ArchiveBlocks(es) ==
    IF es = <<>> THEN <<ZeroBlock>> ELSE EntryBlocks(Head(es)) \o ArchiveBlocks(Tail(es))

DistinctNames(es) == \A i, j \in 1..Len(es) : es[i].name = es[j].name => i = j

Archives == { es \in SeqsUpTo(Entries, MaxEntries) : es # <<>> /\ DistinctNames(es) }

\* ----------------------------------------------------------- state machine
VARIABLES
    buffer,          \* the bytes of the file handed to extractTar
    origin,          \* the entries buffer was built from, <<>> for a free buffer
    pc,              \* where extractTar stands
    offset,          \* the cursor of the scan
    processedFiles,  \* number of entry objects built so far
    extractedFiles,  \* the global map of stored entries, keyed by path
    stored,          \* the entry objects built so far, in order, with their header offsets
    progress,        \* the values handed to updateProgress so far
    iterations,      \* number of headers parsed so far
    stop             \* how the loop was left: "none" while it runs

\* Calls of extractArchive that overlap: each call suspends at
\* `await file.arrayBuffer()` and the calls started meanwhile share extractedFiles.
VARIABLES
    waiting,         \* the files of the calls suspended at the await, in call order
    started          \* number of calls of extractArchive so far

tarVars == <<buffer, origin, pc, offset, processedFiles, extractedFiles, stored, progress,
             iterations, stop>>

overlapVars == <<waiting, started>>

\* One call of smartDecodeFileName, step by step.
VARIABLES
    input,           \* the bytes handed to smartDecodeFileName
    encoded,         \* the code points input is the UTF-8 encoding of, <<>> for free bytes
    dpc,             \* where the call stands
    encodingIndex,   \* position of the loop over encodings
    result,          \* the string returned
    tried            \* the decoders run so far, in order

decodeVars == <<input, encoded, dpc, encodingIndex, result, tried>>

\* The page: its sections, its module-level variables and the asynchronous
\* calls that are suspended at an await.
VARIABLES
    uploadSection,     \* style.display of the upload section
    processingSection, \* style.display of the processing section
    resultSection,     \* style.display of the result section
    errorPopup,        \* style.display of the error popup
    currentMode,       \* 'compress', 'extract' or 'image-compress'
    currentFile,       \* the file of the last accepted extraction, or Null
    prototype,         \* the prototype of extractedFiles: Object.prototype or an entry
    jobs,              \* the suspended calls, each with what it still has to do
    downloads,         \* the downloads triggered so far, in order
    events,            \* number of user events so far
    lastEvent          \* the last user event or resumed call, with its arguments

uiVars == <<uploadSection, processingSection, resultSection, errorPopup, currentMode,
            currentFile, prototype, jobs, downloads, events, lastEvent>>

\* tarVars without the global map.
scanVars == <<buffer, origin, pc, offset, processedFiles, stored, progress, iterations, stop>>

\* One call of extractWithUncompress: the promise it returns, its timer, and
\* the locals of the callback of archiveOpenFile. The map, the counter of
\* processed entries and the values handed to updateProgress are
\* extractedFiles, processedFiles and progress.
VARIABLES
    call,              \* where the call stands
    promise,           \* the promise returned: its state and the error it rejected with
    timeoutId,         \* the 30-second timer: "none", "armed", "fired" or "cleared"
    archive,           \* archive.entries as handed to the open callback, or Null
    reads,             \* what has happened to each entry of archive.entries
    completedFiles,    \* the counter compared with totalFiles
    closed             \* number of calls of archiveClose

uncompressVars == <<call, promise, timeoutId, archive, reads, completedFiles, closed>>

\* The variables of the scan a call of extractWithUncompress has no part in.
scanOnlyVars == <<buffer, origin, pc, offset, stored, iterations, stop>>

vars == <<tarVars, overlapVars, decodeVars, uiVars, uncompressVars>>

Null == [null |-> TRUE]

\* The page is not observed.
UiAtRest ==
    /\ uploadSection = "css"
    /\ processingSection = "css"
    /\ resultSection = "css"
    /\ errorPopup = "css"
    /\ currentMode = "compress"
    /\ currentFile = Null
    /\ prototype = Null
    /\ jobs = <<>>
    /\ downloads = <<>>
    /\ events = 0
    /\ lastEvent = Null

\* No call of extractWithUncompress is observed.
UncompressAtRest ==
    /\ call = "none"
    /\ promise = [state |-> "none", error |-> ""]
    /\ timeoutId = "none"
    /\ archive = Null
    /\ reads = <<>>
    /\ completedFiles = 0
    /\ closed = 0

\* No call of smartDecodeFileName is observed step by step.
DecodeAtRest ==
    /\ input = <<>>
    /\ encoded = <<>>
    /\ dpc = "none"
    /\ encodingIndex = 0
    /\ result = <<>>
    /\ tried = <<>>

\* extractArchive has emptied extractedFiles and called extractTar(file).
Init ==
    /\ \/ buffer \in FreeBuffers /\ origin = <<>>
       \/ \E es \in Archives :
             /\ buffer = [blocks |-> ArchiveBlocks(es), tail |-> <<>>]
             /\ origin = es
    /\ pc = "await"
    /\ offset = 0
    /\ processedFiles = 0
    /\ extractedFiles = <<>>
    /\ stored = <<>>
    /\ progress = <<>>
    /\ iterations = 0
    /\ stop = "none"
    /\ waiting = <<>>
    /\ started = 1
    /\ DecodeAtRest
    /\ UiAtRest
    /\ UncompressAtRest

\* await file.arrayBuffer() resolves; the locals are set up.
ReadFile ==
    /\ pc = "await"
    /\ pc' = "scan"
    /\ offset' = 0
    /\ processedFiles' = 0
    /\ UNCHANGED <<buffer, origin, extractedFiles, stored, progress, iterations, stop>>
    /\ UNCHANGED <<overlapVars, decodeVars, uiVars, uncompressVars>>

\* The loop condition fails: the scan ends.
LoopExit ==
    /\ pc = "scan"
    /\ ~LoopCondition(buffer, offset)
    /\ pc' = "check"
    /\ stop' = "short"
    /\ UNCHANGED <<buffer, origin, offset, processedFiles, extractedFiles, stored, progress,
                   iterations>>
    /\ UNCHANGED <<overlapVars, decodeVars, uiVars, uncompressVars>>

\* The first read of the iteration is out of range: getUint8 throws RangeError,
\* the catch block rethrows.
ReadOutOfRange ==
    /\ pc = "scan"
    /\ LoopCondition(buffer, offset)
    /\ ~InRange(buffer, offset)
    /\ pc' = "error"
    /\ stop' = "range"
    /\ UNCHANGED <<buffer, origin, offset, processedFiles, extractedFiles, stored, progress,
                   iterations>>
    /\ UNCHANGED <<overlapVars, decodeVars, uiVars, uncompressVars>>

\* EndOfArchive with the zero block skipped instead of ending the scan.
EndOfArchive_Skips ==
    /\ pc = "scan"
    /\ LoopCondition(buffer, offset)
    /\ InRange(buffer, offset)
    /\ isEnd(buffer, offset)
    /\ offset' = offset + BlockSize
    /\ UNCHANGED <<buffer, origin, pc, processedFiles, extractedFiles, stored, progress,
                   iterations, stop>>
    /\ UNCHANGED <<overlapVars, decodeVars, uiVars, uncompressVars>>

\* The block at the cursor is all zero: break.
EndOfArchive ==
    /\ pc = "scan"
    /\ LoopCondition(buffer, offset)
    /\ InRange(buffer, offset)
    /\ isEnd(buffer, offset)
    /\ pc' = "check"
    /\ stop' = "zero"
    /\ UNCHANGED <<buffer, origin, offset, processedFiles, extractedFiles, stored, progress,
                   iterations>>
    /\ UNCHANGED <<overlapVars, decodeVars, uiVars, uncompressVars>>

\* EmptyName with the header skipped instead of ending the scan.
EmptyName_Skips ==
    /\ pc = "scan"
    /\ LoopCondition(buffer, offset)
    /\ InRange(buffer, offset)
    /\ ~isEnd(buffer, offset)
    /\ fileName(buffer, offset) = <<>>
    /\ offset' = offset + BlockSize
    /\ UNCHANGED <<buffer, origin, pc, processedFiles, extractedFiles, stored, progress,
                   iterations, stop>>
    /\ UNCHANGED <<overlapVars, decodeVars, uiVars, uncompressVars>>

\* The decoded name is empty: break.
EmptyName ==
    /\ pc = "scan"
    /\ LoopCondition(buffer, offset)
    /\ InRange(buffer, offset)
    /\ ~isEnd(buffer, offset)
    /\ fileName(buffer, offset) = <<>>
    /\ pc' = "check"
    /\ stop' = "empty"
    /\ UNCHANGED <<buffer, origin, offset, processedFiles, extractedFiles, stored, progress,
                   iterations>>
    /\ UNCHANGED <<overlapVars, decodeVars, uiVars, uncompressVars>>

\* One full iteration: the header is parsed, the entry is stored when it is a
\* regular file with content, and the cursor moves past header and payload.
ParseHeader ==
    /\ pc = "scan"
    /\ LoopCondition(buffer, offset)
    /\ InRange(buffer, offset)
    /\ ~isEnd(buffer, offset)
    /\ fileName(buffer, offset) # <<>>
    /\ iterations < MaxIterations
    /\ IF IsStored(buffer, offset)
       THEN /\ extractedFiles' = ObjectSet(extractedFiles, fileName(buffer, offset),
                                           EntryAt(buffer, offset))
            /\ stored' = Append(stored, [at |-> offset, entry |-> EntryAt(buffer, offset)])
            /\ processedFiles' = processedFiles + 1
            /\ progress' = Append(progress, ProgressValue(processedFiles + 1, buffer))
       ELSE UNCHANGED <<extractedFiles, stored, processedFiles, progress>>
    /\ offset' = offset + BlockSize + PayloadAdvance(fileSize(buffer, offset))
    /\ iterations' = iterations + 1
    /\ pc' = "scan"
    /\ UNCHANGED <<buffer, origin, stop>>
    /\ UNCHANGED <<overlapVars, decodeVars, uiVars, uncompressVars>>

\* After the loop: no stored entry is an error.
CheckEmpty ==
    /\ pc = "check"
    /\ pc' = IF Cardinality(ObjectKeys(extractedFiles)) = 0 THEN "error" ELSE "done"
    /\ UNCHANGED <<buffer, origin, offset, processedFiles, extractedFiles, stored, progress,
                   iterations, stop>>
    /\ UNCHANGED <<overlapVars, decodeVars, uiVars, uncompressVars>>

Next ==
    \/ ReadFile
    \/ LoopExit
    \/ ReadOutOfRange
    \/ EndOfArchive
    \/ EmptyName
    \/ ParseHeader
    \/ CheckEmpty

Spec == Init /\ [][Next]_vars

\* ------------------------------------------------ overlapping extractions
\* Calls of extractArchive per behaviour.
MaxCalls == 2

\* Archives built from the entries named "a.txt" and "b".
PlainArchives == { es \in Archives : \A i \in 1..Len(es) : es[i].name # ProtoKey }

\* The files handed to overlapping calls: regular archives, an archive with no
\* entry, a lone header, a header whose size moves the cursor below 0, and a
\* header with an empty name.
OverlapFiles ==
    { [blocks |-> ArchiveBlocks(es), tail |-> <<>>] : es \in PlainArchives }
    \cup { [blocks |-> <<ZeroBlock, ZeroBlock>>, tail |-> <<>>],
            [blocks |-> <<Block(NameATxt, Size5, TypeZeroChar)>>, tail |-> <<>>],
            [blocks |-> <<Block(NameC, SizeMinus2048, TypeZeroChar), ZeroBlock>>, tail |-> <<>>],
            [blocks |-> <<Block(<<>>, Size5, TypeZeroChar), ZeroBlock>>, tail |-> <<>>] }

\* No synchronous code of a call is running: an event or a resolved promise
\* can be served.
Idle == pc \notin {"scan", "check"}

\* The page is loaded, no extraction was started.
InitOverlap ==
    /\ buffer = [blocks |-> <<>>, tail |-> <<>>]
    /\ origin = <<>>
    /\ pc = "idle"
    /\ offset = 0
    /\ processedFiles = 0
    /\ extractedFiles = <<>>
    /\ stored = <<>>
    /\ progress = <<>>
    /\ iterations = 0
    /\ stop = "none"
    /\ waiting = <<>>
    /\ started = 0
    /\ DecodeAtRest
    /\ UiAtRest
    /\ UncompressAtRest

\* extractArchive(file) runs up to the await in extractTar: the global map is
\* replaced by an empty one and the call is suspended.
ExtractArchive ==
    /\ Idle
    /\ started < MaxCalls
    /\ \E file \in OverlapFiles : waiting' = Append(waiting, file)
    /\ started' = started + 1
    /\ extractedFiles' = <<>>
    /\ UNCHANGED <<buffer, origin, pc, offset, processedFiles, stored, progress, iterations,
                   stop>>
    /\ UNCHANGED <<decodeVars, uiVars, uncompressVars>>

\* file.arrayBuffer() of one suspended call resolves: that call goes on with
\* fresh locals, and with the global map as it stands.
Resume ==
    /\ Idle
    /\ \E k \in 1..Len(waiting) :
          /\ buffer' = waiting[k]
          /\ waiting' = SubSeq(waiting, 1, k - 1) \o SubSeq(waiting, k + 1, Len(waiting))
    /\ pc' = "scan"
    /\ offset' = 0
    /\ processedFiles' = 0
    /\ stored' = <<>>
    /\ progress' = <<>>
    /\ iterations' = 0
    /\ stop' = "none"
    /\ UNCHANGED <<origin, extractedFiles, started>>
    /\ UNCHANGED <<decodeVars, uiVars, uncompressVars>>

NextOverlap ==
    \/ ExtractArchive
    \/ Resume
    \/ LoopExit
    \/ ReadOutOfRange
    \/ EndOfArchive
    \/ EmptyName
    \/ ParseHeader
    \/ CheckEmpty

SpecOverlap == InitOverlap /\ [][NextOverlap]_vars

\* ------------------------------------------------- calls of the name decoder
\* Longest freely composed byte sequence, longest encoded string.
MaxLen == 3
MaxChars == 2

\* The bytes free inputs are made of: '0', 'A', DEL, 0x80, the lead bytes 0x81,
\* 0xA1 and 0xE3, and 0xFF.
FreeBytes == { 48, 65, 127, 128, 129, 161, 227, 255 }

\* The code points encoded strings are made of: 'A', U+00E9, U+4F60, U+FEFF
\* and U+1F600.
CodePoints == { 65, 233, 20320, 65279, 128512 }

\* The UTF-8 bytes of one code point, and of a string of code points.
Utf8EncodeOne(cp) ==
    IF cp < 128 THEN <<cp>>
    ELSE IF cp < 2048 THEN <<192 + (cp \div 64), 128 + (cp % 64)>>
    ELSE IF cp < 65536
    THEN <<224 + (cp \div 4096), 128 + ((cp \div 64) % 64), 128 + (cp % 64)>>
    ELSE <<240 + (cp \div 262144), 128 + ((cp \div 4096) % 64),
           128 + ((cp \div 64) % 64), 128 + (cp % 64)>>

RECURSIVE Utf8Encode(_)
Utf8Encode(s) == IF s = <<>> THEN <<>> ELSE Utf8EncodeOne(Head(s)) \o Utf8Encode(Tail(s))

\* The UTF-16 code units of a string of code points.
RECURSIVE StringUnits(_)
StringUnits(s) == IF s = <<>> THEN <<>> ELSE CodeUnits(Head(s)) \o StringUnits(Tail(s))

Repeat(x, n) == [i \in 1..n |-> x]

\* 0xFF and nine 'A': every legacy decode has one U+FFFD in ten code units.
RatioTenth == <<255>> \o Repeat(65, 9)
\* 0xFF and ten 'A': one U+FFFD in eleven.
RatioEleventh == <<255>> \o Repeat(65, 10)
\* 0xFF and five times 88 62: GBK gives six code units, Big5 eleven.
Big5Pairs == <<255, 136, 98, 136, 98, 136, 98, 136, 98, 136, 98>>
\* C4 E3, U+4F60 in GBK.
GbkNi == <<196, 227>>

LongInputs == { RatioTenth, RatioEleventh, Big5Pairs, GbkNi }

EncodedStrings == { s \in SeqsUpTo(CodePoints, MaxChars) : s # <<>> }

\* smartDecodeFileName(bytes) is called.
InitDecode ==
    /\ \/ input \in SeqsUpTo(FreeBytes, MaxLen) \cup LongInputs /\ encoded = <<>>
       \/ \E s \in EncodedStrings : input = Utf8Encode(s) /\ encoded = s
    /\ dpc = "call"
    /\ encodingIndex = 0
    /\ result = <<>>
    /\ tried = <<>>
    /\ buffer = [blocks |-> <<>>, tail |-> <<>>]
    /\ origin = <<>>
    /\ pc = "idle"
    /\ offset = 0
    /\ processedFiles = 0
    /\ extractedFiles = <<>>
    /\ stored = <<>>
    /\ progress = <<>>
    /\ iterations = 0
    /\ stop = "none"
    /\ waiting = <<>>
    /\ started = 0
    /\ UiAtRest
    /\ UncompressAtRest

\* The isAscii loop; pure ASCII is decoded at once.
CheckAscii ==
    /\ dpc = "call"
    /\ IF isAscii(input)
       THEN /\ tried' = Append(tried, "ascii")
            /\ result' = Windows1252Decode(input)
            /\ dpc' = "returned"
       ELSE /\ dpc' = "utf8"
            /\ UNCHANGED <<tried, result>>
    /\ UNCHANGED <<input, encoded, encodingIndex, tarVars, overlapVars, uiVars, uncompressVars>>

\* TryUtf8 with the TypeError of the strict decoder not caught.
TryUtf8_NoCatch ==
    /\ dpc = "utf8"
    /\ tried' = Append(tried, "utf-8")
    /\ IF Utf8StrictDecode(input).ok
       THEN /\ result' = Utf8StrictDecode(input).str
            /\ dpc' = "returned"
       ELSE /\ dpc' = "thrown"
            /\ UNCHANGED result
    /\ UNCHANGED <<input, encoded, encodingIndex, tarVars, overlapVars, uiVars, uncompressVars>>

\* TryUtf8 with the strict decode never taken.
TryUtf8_Skipped ==
    /\ dpc = "utf8"
    /\ tried' = Append(tried, "utf-8")
    /\ dpc' = "legacy"
    /\ encodingIndex' = 1
    /\ UNCHANGED <<input, encoded, result, tarVars, overlapVars, uiVars, uncompressVars>>

\* The strict UTF-8 decode: its result is returned, its TypeError is caught
\* and the loop over encodings begins.
TryUtf8 ==
    /\ dpc = "utf8"
    /\ tried' = Append(tried, "utf-8")
    /\ IF Utf8StrictDecode(input).ok
       THEN /\ result' = Utf8StrictDecode(input).str
            /\ dpc' = "returned"
            /\ UNCHANGED encodingIndex
       ELSE /\ dpc' = "legacy"
            /\ encodingIndex' = 1
            /\ UNCHANGED result
    /\ UNCHANGED <<input, encoded, tarVars, overlapVars, uiVars, uncompressVars>>

\* One iteration of the loop over encodings: the decode is returned when few
\* enough of its code units are U+FFFD, otherwise the next encoding is tried.
TryEncoding ==
    /\ dpc = "legacy"
    /\ encodingIndex <= Len(encodings)
    /\ tried' = Append(tried, encodings[encodingIndex])
    /\ LET decoded == LegacyDecode(encodings[encodingIndex], input)
       IN  IF RatioAccepted(decoded)
           THEN /\ result' = decoded
                /\ dpc' = "returned"
                /\ UNCHANGED encodingIndex
           ELSE /\ encodingIndex' = encodingIndex + 1
                /\ UNCHANGED <<result, dpc>>
    /\ UNCHANGED <<input, encoded, tarVars, overlapVars, uiVars, uncompressVars>>

\* Fallback with the GBK decode returned instead of the Latin-1 decode.
Fallback_Gbk ==
    /\ dpc = "legacy"
    /\ encodingIndex > Len(encodings)
    /\ tried' = Append(tried, "latin1")
    /\ result' = LegacyDecode("gbk", input)
    /\ dpc' = "returned"
    /\ UNCHANGED <<input, encoded, encodingIndex, tarVars, overlapVars, uiVars, uncompressVars>>

\* The loop over encodings is over: the Latin-1 decode is returned.
Fallback ==
    /\ dpc = "legacy"
    /\ encodingIndex > Len(encodings)
    /\ tried' = Append(tried, "latin1")
    /\ result' = Windows1252Decode(input)
    /\ dpc' = "returned"
    /\ UNCHANGED <<input, encoded, encodingIndex, tarVars, overlapVars, uiVars, uncompressVars>>

NextDecode ==
    \/ CheckAscii
    \/ TryUtf8
    \/ TryEncoding
    \/ Fallback

SpecDecode == InitDecode /\ [][NextDecode]_vars

\* The steps of a call return what the function used by extractTar computes.
StepsAgreeWithFunction == dpc = "returned" => result = smartDecodeFileName(input)

\* ------------------------------------------------------------------ the page
\* User events per behaviour.
MaxEvents == 2

MAX_FILE_SIZE == 500 * 1024 * 1024

\* String.prototype.toLowerCase on the letters A..Z.
toLowerCase(str) ==
    [i \in 1..Len(str) |-> IF str[i] >= 65 /\ str[i] <= 90 THEN str[i] + 32 ELSE str[i]]

Dot == 46

\* str.split('.').pop(): the text after the last dot, all of str when it has none.
RECURSIVE SplitDotPop(_, _)
SplitDotPop(str, acc) ==
    IF str = <<>> THEN acc
    ELSE IF Head(str) = Dot THEN SplitDotPop(Tail(str), <<>>)
    ELSE SplitDotPop(Tail(str), Append(acc, Head(str)))

ExtZip == <<122, 105, 112>>                      \* "zip"
ExtGz == <<103, 122>>                            \* "gz"
ExtTar == <<116, 97, 114>>                       \* "tar"

\* supportedFormats.includes('.' + file.name.split('.').pop().toLowerCase())
supportedFormats == { ExtZip, ExtGz, ExtTar }

fileExtension(file) == toLowerCase(SplitDotPop(file.name, <<>>))

\* str.replace(/\.[^/.]+$/, ''): a last dot followed by one or more characters
\* that are neither '/' nor '.' is cut off with what follows it.
RECURSIVE LastDot(_, _)
LastDot(str, i) == IF i = 0 THEN 0 ELSE IF str[i] = Dot THEN i ELSE LastDot(str, i - 1)

StripExtension(str) ==
    LET d == LastDot(str, Len(str))
    IN  IF d > 0 /\ d < Len(str) /\ \A i \in (d + 1)..Len(str) : str[i] # Slash
        THEN SubSeq(str, 1, d - 1)
        ELSE str

\* The entry object stored under a path.
PageEntry(path) ==
    [name |-> LastSegment(path, <<>>), path |-> path, size |-> Len(path), content |-> path]

\* The display assignments of the section handlers; the texts and the
\* progress bar are no part of the page state.
showProcessingUI ==
    /\ uploadSection' = "none"
    /\ processingSection' = "block"
    /\ resultSection' = "none"

\* showResults with the upload section hidden as well.
showResults_HidesUpload ==
    /\ uploadSection' = "none"
    /\ processingSection' = "none"
    /\ resultSection' = "block"

showResults ==
    /\ processingSection' = "none"
    /\ resultSection' = "block"
    /\ UNCHANGED uploadSection

resetInterface ==
    /\ uploadSection' = "block"
    /\ processingSection' = "none"
    /\ resultSection' = "none"

showError == errorPopup' = "flex"

\* extractedFiles[path] = entry for the paths of a sequence, in order, on the map
\* obj; "__proto__" reaches the inherited setter and replaces the prototype.
RECURSIVE StoreAll(_, _)
StoreAll(obj, paths) ==
    IF paths = <<>> THEN obj
    ELSE StoreAll(ObjectSet(obj, Head(paths), PageEntry(Head(paths))), Tail(paths))

RECURSIVE ProtoAfter(_, _)
ProtoAfter(proto, paths) ==
    IF paths = <<>> THEN proto
    ELSE ProtoAfter(IF Head(paths) = ProtoKey THEN PageEntry(ProtoKey) ELSE proto, Tail(paths))

\* The files a user can hand to the page: name, size, MIME type, whether its
\* bytes can be read, whether the extractor of its format gets through it, and
\* the paths of the entries the extractor stores, in order.
PageFile(n, sz, t, r, k, ps) ==
    [name |-> n, size |-> sz, type |-> t, readable |-> r, ok |-> k, paths |-> ps]

FileZip == PageFile(<<97, 46, 122, 105, 112>>, 5, "application/zip", TRUE, TRUE,
                    <<NameATxt, NameB>>)                                  \* "a.zip"
FileTarUpper == PageFile(<<66, 46, 84, 65, 82>>, MAX_FILE_SIZE, "", TRUE, TRUE,
                         <<NameATxt>>)                                    \* "B.TAR"
FileGz == PageFile(<<99, 46, 103, 122>>, 5, "application/gzip", TRUE, TRUE, <<>>)  \* "c.gz"
FileNoDot == PageFile(ExtTar, 5, "", TRUE, TRUE, <<NameATxt>>)            \* "tar"
FileTxt == PageFile(<<100, 46, 116, 120, 116>>, 5, "text/plain", FALSE, TRUE, <<>>) \* "d.txt"
FileTooBig == PageFile(<<97, 46, 122, 105, 112>>, MAX_FILE_SIZE + 1, "application/zip",
                       TRUE, TRUE, <<NameATxt>>)                          \* "a.zip"
FileCorrupt == PageFile(<<101, 46, 116, 97, 114>>, 5, "", TRUE, FALSE, <<>>)        \* "e.tar"
FileEmptyTar == PageFile(<<110, 46, 116, 97, 114>>, 5, "", TRUE, TRUE, <<>>)        \* "n.tar"
FileProto == PageFile(<<112, 46, 116, 97, 114>>, 5, "", TRUE, TRUE,
                      <<NameATxt, NameB, ProtoKey>>)                      \* "p.tar"
FilePng == PageFile(<<105, 46, 112, 110, 103>>, 5, "image/png", TRUE, TRUE, <<>>)   \* "i.png"

PageFiles ==
    { FileZip, FileTarUpper, FileGz, FileNoDot, FileTxt, FileTooBig, FileCorrupt, FileEmptyTar,
      FileProto, FilePng }

FileLists ==
    { <<f>> : f \in PageFiles }
    \cup { <<FileTxt, FileZip>>, <<FileZip, FileTxt>>, <<FileTarUpper, FileGz>>,
            <<FilePng, FilePng>> }

Modes == { "compress", "extract", "image-compress" }

\* The page is loaded: the style sheet decides what is displayed.
InitPage ==
    /\ uploadSection = "css"
    /\ processingSection = "css"
    /\ resultSection = "css"
    /\ errorPopup = "css"
    /\ currentMode = "compress"
    /\ currentFile = Null
    /\ prototype = Null
    /\ jobs = <<>>
    /\ downloads = <<>>
    /\ events = 0
    /\ lastEvent = Null
    /\ extractedFiles = <<>>
    /\ buffer = [blocks |-> <<>>, tail |-> <<>>]
    /\ origin = <<>>
    /\ pc = "idle"
    /\ offset = 0
    /\ processedFiles = 0
    /\ stored = <<>>
    /\ progress = <<>>
    /\ iterations = 0
    /\ stop = "none"
    /\ waiting = <<>>
    /\ started = 0
    /\ DecodeAtRest
    /\ UncompressAtRest

\* The parts of the state no step of the page touches.
PageFrame == UNCHANGED <<scanVars, overlapVars, decodeVars, uncompressVars>>

Job(kind, file, files, todo) == [kind |-> kind, file |-> file, files |-> files, todo |-> todo]

WithoutJob(k) == SubSeq(jobs, 1, k - 1) \o SubSeq(jobs, k + 1, Len(jobs))

\* The extractor extractArchive dispatches the file to.
Extractor(file) ==
    IF fileExtension(file) = ExtZip THEN "extractZip"
    ELSE IF fileExtension(file) = ExtGz THEN "extractGzip"
    ELSE IF fileExtension(file) = ExtTar THEN "extractTar"
    ELSE "unsupported"

\* handleFiles(files): the size and the extension of the first file are
\* checked; an accepted file becomes currentFile, the processing section is
\* shown, and extractArchive runs up to the first await of its extractor.
handleFiles(files) ==
    LET file == files[1]
    IN  /\ lastEvent' = [name |-> "handleFiles", files |-> files]
        /\ IF file.size > MAX_FILE_SIZE \/ fileExtension(file) \notin supportedFormats
           THEN /\ showError
                /\ UNCHANGED <<uploadSection, processingSection, resultSection, currentFile,
                               extractedFiles, prototype, jobs>>
           ELSE /\ currentFile' = file
                /\ showProcessingUI
                /\ extractedFiles' = <<>>
                /\ prototype' = Null
                /\ jobs' = Append(jobs, Job(Extractor(file), file, files, <<>>))
                /\ UNCHANGED errorPopup
        /\ UNCHANGED <<currentMode, downloads>>

\* A catch block that shows the popup and leaves the sections as they are.
ExtractionFails_PopupOnly ==
    /\ showError
    /\ UNCHANGED <<uploadSection, processingSection, resultSection>>

\* extractArchive's catch block: the popup and the upload section are shown.
ExtractionFails ==
    /\ showError
    /\ resetInterface

\* file.arrayBuffer() of a suspended extractTar resolves: the scan stores its
\* entries; it throws when the file cannot be scanned or the map has no key.
ResumeExtractTar ==
    \E k \in 1..Len(jobs) :
        /\ jobs[k].kind = "extractTar"
        /\ jobs' = WithoutJob(k)
        /\ lastEvent' = [name |-> "extractTar", file |-> jobs[k].file]
        /\ IF ~jobs[k].file.ok
           THEN /\ ExtractionFails
                /\ UNCHANGED <<extractedFiles, prototype>>
           ELSE /\ extractedFiles' = StoreAll(extractedFiles, jobs[k].file.paths)
                /\ prototype' = ProtoAfter(prototype, jobs[k].file.paths)
                /\ IF ObjectKeys(extractedFiles') = {}
                   THEN ExtractionFails
                   ELSE showResults /\ UNCHANGED errorPopup
        /\ UNCHANGED <<currentMode, currentFile, downloads, events>>
        /\ PageFrame

\* The name extractGzip stores the content under: the file name without ".gz".
originalName(file) ==
    LET n == file.name
    IN  IF Len(n) >= 3 /\ toLowerCase(SubSeq(n, Len(n) - 2, Len(n))) = <<Dot>> \o ExtGz
        THEN SubSeq(n, 1, Len(n) - 3)
        ELSE n

\* file.arrayBuffer() of a suspended extractGzip resolves.
ResumeExtractGzip ==
    \E k \in 1..Len(jobs) :
        /\ jobs[k].kind = "extractGzip"
        /\ jobs' = WithoutJob(k)
        /\ lastEvent' = [name |-> "extractGzip", file |-> jobs[k].file]
        /\ IF ~jobs[k].file.ok
           THEN /\ ExtractionFails
                /\ UNCHANGED <<extractedFiles, prototype>>
           ELSE /\ extractedFiles' = StoreAll(extractedFiles, <<originalName(jobs[k].file)>>)
                /\ prototype' = ProtoAfter(prototype, <<originalName(jobs[k].file)>>)
                /\ showResults
                /\ UNCHANGED errorPopup
        /\ UNCHANGED <<currentMode, currentFile, downloads, events>>
        /\ PageFrame

\* An await of a suspended extractZip resolves: loadAsync first, then the
\* content of one entry after the other; after the last, the results are shown.
ResumeExtractZip ==
    \E k \in 1..Len(jobs) :
        LET job == jobs[k]
            opening == job.kind = "extractZip"
            todo == IF opening THEN job.file.paths ELSE Tail(job.todo)
        IN  /\ job.kind \in {"extractZip", "extractZip entry"}
            /\ lastEvent' = [name |-> "extractZip", file |-> job.file]
            /\ IF opening
               THEN UNCHANGED <<extractedFiles, prototype>>
               ELSE /\ extractedFiles' = StoreAll(extractedFiles, <<Head(job.todo)>>)
                    /\ prototype' = ProtoAfter(prototype, <<Head(job.todo)>>)
            /\ IF opening /\ ~job.file.ok
               THEN jobs' = WithoutJob(k) /\ ExtractionFails
               ELSE IF todo = <<>>
               THEN jobs' = WithoutJob(k) /\ showResults /\ UNCHANGED errorPopup
               ELSE /\ jobs' = [jobs EXCEPT ![k] = Job("extractZip entry", job.file,
                                                       job.files, todo)]
                    /\ UNCHANGED <<uploadSection, processingSection, resultSection,
                                   errorPopup>>
            /\ UNCHANGED <<currentMode, currentFile, downloads, events>>
            /\ PageFrame

\* A mode button is clicked.
SwitchMode ==
    /\ events < MaxEvents
    /\ events' = events + 1
    /\ \E mode \in Modes :
          /\ currentMode' = mode
          /\ lastEvent' = [name |-> "switchMode", mode |-> mode]
    /\ resetInterface
    /\ UNCHANGED <<errorPopup, currentFile, extractedFiles, prototype, jobs, downloads>>
    /\ PageFrame

\* The change event of the file input.
FileSelect ==
    /\ events < MaxEvents
    /\ events' = events + 1
    /\ \E files \in FileLists : handleFiles(files)
    /\ PageFrame

\* Sum of the sizes of a list of files.
RECURSIVE totalSize(_)
totalSize(files) == IF files = <<>> THEN 0 ELSE Head(files).size + totalSize(Tail(files))

\* handleCompressFiles with a selection of exactly the limit rejected as well.
handleCompressFiles_RejectsAtLimit(files) ==
    /\ lastEvent' = [name |-> "handleCompressFiles", files |-> files]
    /\ IF totalSize(files) >= MAX_FILE_SIZE
       THEN /\ showError
            /\ UNCHANGED <<uploadSection, processingSection, resultSection, jobs>>
       ELSE /\ showProcessingUI
            /\ jobs' = Append(jobs, Job("compressFiles", files[1], files, files))
            /\ UNCHANGED errorPopup
    /\ UNCHANGED <<currentMode, currentFile, extractedFiles, prototype, downloads>>

\* handleCompressFiles(files): the summed size is checked, the processing
\* section is shown, and compressFiles runs up to the read of its first file.
handleCompressFiles(files) ==
    /\ lastEvent' = [name |-> "handleCompressFiles", files |-> files]
    /\ IF totalSize(files) > MAX_FILE_SIZE
       THEN /\ showError
            /\ UNCHANGED <<uploadSection, processingSection, resultSection, jobs>>
       ELSE /\ showProcessingUI
            /\ jobs' = Append(jobs, Job("compressFiles", files[1], files, files))
            /\ UNCHANGED errorPopup
    /\ UNCHANGED <<currentMode, currentFile, extractedFiles, prototype, downloads>>

ZipSuffix == <<Dot>> \o ExtZip
YasuoZip == <<121, 97, 115, 117, 111>> \o ZipSuffix                    \* "yasuo.zip"

\* The name of the archive compressFiles produces (no file carries a
\* webkitRelativePath).
zipName(files) == IF Len(files) = 1 THEN StripExtension(files[1].name) \o ZipSuffix ELSE YasuoZip

\* An await of a suspended compressFiles resolves: the read of one file after
\* the other, then generateAsync; a read that fails ends in the catch block.
ResumeCompressFiles ==
    \E k \in 1..Len(jobs) :
        LET job == jobs[k]
        IN  /\ job.kind \in {"compressFiles", "compressFiles generate"}
            /\ lastEvent' = [name |-> "compressFiles", files |-> job.files]
            /\ IF job.kind = "compressFiles generate"
               THEN /\ jobs' = WithoutJob(k)
                    /\ extractedFiles' = StoreAll(<<>>, <<zipName(job.files)>>)
                    /\ prototype' = Null
                    /\ showResults
                    /\ UNCHANGED errorPopup
               ELSE IF ~Head(job.todo).readable
               THEN /\ jobs' = WithoutJob(k)
                    /\ showError
                    /\ resetInterface
                    /\ UNCHANGED <<extractedFiles, prototype>>
               ELSE /\ jobs' = [jobs EXCEPT ![k] =
                                   Job(IF Tail(job.todo) = <<>> THEN "compressFiles generate"
                                       ELSE "compressFiles",
                                       job.file, job.files, Tail(job.todo))]
                    /\ UNCHANGED <<uploadSection, processingSection, resultSection,
                                   errorPopup, extractedFiles, prototype>>
            /\ UNCHANGED <<currentMode, currentFile, downloads, events>>
            /\ PageFrame

supportedTypes == { "image/jpeg", "image/jpg", "image/png", "image/webp" }

\* handleImageCompressFiles(files): type and size of every file are checked,
\* the processing section is shown, and compressImages empties the map and
\* runs up to the compression of its first image.
handleImageCompressFiles(files) ==
    /\ lastEvent' = [name |-> "handleImageCompressFiles", files |-> files]
    /\ IF \E i \in 1..Len(files) :
             files[i].type \notin supportedTypes \/ files[i].size > MAX_FILE_SIZE
       THEN /\ showError
            /\ UNCHANGED <<uploadSection, processingSection, resultSection, jobs,
                           extractedFiles, prototype>>
       ELSE /\ showProcessingUI
            /\ extractedFiles' = <<>>
            /\ prototype' = Null
            /\ jobs' = Append(jobs, Job("compressImages", files[1], files, files))
            /\ UNCHANGED errorPopup
    /\ UNCHANGED <<currentMode, currentFile, downloads>>

YasuoMark == <<40, 121, 97, 115, 117, 111, 46, 122, 105, 112, 41>>      \* "(yasuo.zip)"

\* `${nameWithoutExt}(yasuo.zip)${ext}` with both parts cut at lastIndexOf('.').
compressedName(file) ==
    LET n == file.name
        d == LastDot(n, Len(n))
    IN  IF d = 0 THEN YasuoMark \o n
        ELSE SubSeq(n, 1, d - 1) \o YasuoMark \o SubSeq(n, d, Len(n))

\* compressImage of the next image of a suspended compressImages settles.
ResumeCompressImages ==
    \E k \in 1..Len(jobs) :
        LET job == jobs[k]
        IN  /\ job.kind = "compressImages"
            /\ lastEvent' = [name |-> "compressImages", files |-> job.files]
            /\ IF ~Head(job.todo).ok
               THEN /\ jobs' = WithoutJob(k)
                    /\ showError
                    /\ resetInterface
                    /\ UNCHANGED <<extractedFiles, prototype>>
               ELSE /\ extractedFiles' =
                           StoreAll(extractedFiles, <<compressedName(Head(job.todo))>>)
                    /\ UNCHANGED prototype
                    /\ IF Tail(job.todo) = <<>>
                       THEN jobs' = WithoutJob(k) /\ showResults /\ UNCHANGED errorPopup
                       ELSE /\ jobs' = [jobs EXCEPT ![k] =
                                           Job("compressImages", job.file, job.files,
                                               Tail(job.todo))]
                            /\ UNCHANGED <<uploadSection, processingSection, resultSection,
                                           errorPopup>>
            /\ UNCHANGED <<currentMode, currentFile, downloads, events>>
            /\ PageFrame

\* Files are dropped on the drop area: the handler of the current mode runs.
Drop ==
    /\ events < MaxEvents
    /\ events' = events + 1
    /\ \E files \in FileLists :
          IF currentMode = "extract" THEN handleFiles(files)
          ELSE IF currentMode = "compress" THEN handleCompressFiles(files)
          ELSE handleImageCompressFiles(files)
    /\ PageFrame

\* The change event of the inputs of the compress buttons.
CompressSelect ==
    /\ events < MaxEvents
    /\ events' = events + 1
    /\ \E files \in FileLists : handleCompressFiles(files)
    /\ PageFrame

\* The change event of the image input.
ImageSelect ==
    /\ events < MaxEvents
    /\ events' = events + 1
    /\ \E files \in FileLists : handleImageCompressFiles(files)
    /\ PageFrame

\* The close button of the error popup is clicked.
CloseError ==
    /\ events < MaxEvents
    /\ events' = events + 1
    /\ errorPopup' = "none"
    /\ lastEvent' = [name |-> "errorClose"]
    /\ UNCHANGED <<uploadSection, processingSection, resultSection, currentMode, currentFile,
                   extractedFiles, prototype, jobs, downloads>>
    /\ PageFrame

\* The property names of an entry object, which `for (const path in
\* extractedFiles)` visits as well once an entry is the prototype of the map.
InheritedKeys ==
    { <<110, 97, 109, 101>>, <<112, 97, 116, 104>>, <<115, 105, 122, 101>>,
      <<116, 121, 112, 101>>, <<99, 111, 110, 116, 101, 110, 116>> }

ForInKeys == ObjectKeys(extractedFiles) \cup (IF prototype = Null THEN {} ELSE InheritedKeys)

TheKey == CHOOSE key \in ObjectKeys(extractedFiles) : TRUE

\* The download-all button is clicked: downloadAllFiles runs up to its await.
\* One stored file is downloaded directly. Otherwise zip.file is called for
\* every key the for-in loop visits; for an inherited key its data is
\* undefined, which the library either stores as an empty file or rejects by
\* throwing.
DownloadAll ==
    /\ events < MaxEvents
    /\ events' = events + 1
    /\ lastEvent' = [name |-> "downloadAllFiles"]
    /\ IF Cardinality(ObjectKeys(extractedFiles)) = 1
       THEN /\ downloads' = Append(downloads, [kind |-> "file",
                                                name |-> extractedFiles[TheKey].name,
                                                paths |-> {extractedFiles[TheKey].path}])
            /\ UNCHANGED <<jobs, errorPopup>>
       ELSE \/ /\ jobs' = Append(jobs, Job("downloadAllFiles", [keys |-> ForInKeys],
                                            <<>>, <<>>))
               /\ UNCHANGED <<downloads, errorPopup>>
            \/ /\ prototype # Null
               /\ showError
               /\ UNCHANGED <<downloads, jobs>>
    /\ UNCHANGED <<uploadSection, processingSection, resultSection, currentMode, currentFile,
                   extractedFiles, prototype>>
    /\ PageFrame

ExtractedSuffix ==
    <<95, 101, 120, 116, 114, 97, 99, 116, 101, 100>> \o ZipSuffix     \* "_extracted.zip"
FilesZip == <<102, 105, 108, 101, 115>> \o ZipSuffix                   \* "files.zip"

\* generateAsync of a suspended downloadAllFiles settles: the ZIP is downloaded
\* under a name made from currentFile, or the catch block shows the popup.
ResumeDownload ==
    \E k \in 1..Len(jobs) :
        /\ jobs[k].kind = "downloadAllFiles"
        /\ jobs' = WithoutJob(k)
        /\ lastEvent' = [name |-> "generateAsync", keys |-> jobs[k].file.keys]
        /\ \/ /\ downloads' =
                    Append(downloads,
                           [kind |-> "zip",
                            name |-> IF currentFile = Null THEN FilesZip
                                     ELSE StripExtension(currentFile.name) \o ExtractedSuffix,
                            paths |-> jobs[k].file.keys])
              /\ UNCHANGED errorPopup
           \/ /\ showError
              /\ UNCHANGED downloads
        /\ UNCHANGED <<uploadSection, processingSection, resultSection, currentMode,
                       currentFile, extractedFiles, prototype, events>>
        /\ PageFrame

NextPage ==
    \/ SwitchMode
    \/ FileSelect
    \/ Drop
    \/ CompressSelect
    \/ ImageSelect
    \/ CloseError
    \/ DownloadAll
    \/ ResumeExtractTar
    \/ ResumeExtractGzip
    \/ ResumeExtractZip
    \/ ResumeCompressFiles
    \/ ResumeCompressImages
    \/ ResumeDownload

SpecPage == InitPage /\ [][NextPage]_vars

\* ------------------------------------------------- extractWithUncompress
\* Entries per archive.
MaxArchiveEntries == 3

\* An entry of archive.entries: its name, whether it is a file, and what
\* readData does for it: it delivers data, delivers an error, delivers
\* neither, or throws.
ArchiveEntry(n, f, r) == [name |-> n, is_file |-> f, read |-> r]

ArchiveEntries ==
    { ArchiveEntry(NameDir, FALSE, "none"),
      ArchiveEntry(NameATxt, TRUE, "data"),
      ArchiveEntry(NameB, TRUE, "error"),
      ArchiveEntry(NameB, TRUE, "empty"),
      ArchiveEntry(NameC, TRUE, "throws") }

\* What archiveOpenFile hands to its callback: an error, no archive, an
\* archive without entries, or an archive with its entries.
OpenOutcomes ==
    { [error |-> TRUE, entries |-> Null], [error |-> FALSE, entries |-> Null] }
    \cup { [error |-> FALSE, entries |-> [list |-> es]] :
              es \in SeqsUpTo(ArchiveEntries, MaxArchiveEntries) }

Pending == [state |-> "pending", error |-> ""]

\* resolve() and reject(error) settle a pending promise and do nothing to a
\* settled one.
Resolve(p) == IF p = Pending THEN [state |-> "resolved", error |-> ""] ELSE p

Reject(p, error) == IF p = Pending THEN [state |-> "rejected", error |-> error] ELSE p

\* clearTimeout(timeoutId) stops a timer that has not fired.
clearTimeout(id) == IF id = "armed" THEN "cleared" ELSE id

\* The test after each count with the first completion taken for the last.
allDone_AfterFirst(completed, totalFiles) == completed >= 1

\* completedFiles === totalFiles
allDone(completed, totalFiles) == completed = totalFiles

\* completedFiles++ and the test after it: the archive is closed and the
\* promise resolved when the counter reaches totalFiles. The locals and what
\* they stand for travel as one record.
Complete(st, totalFiles) ==
    LET completed == st.completedFiles + 1
        done == allDone(completed, totalFiles)
    IN  [st EXCEPT !.completedFiles = completed,
                   !.closed = IF done THEN @ + 1 ELSE @,
                   !.promise = IF done THEN Resolve(@) ELSE @]

\* processedFiles++ and updateProgress(Math.floor((processedFiles / totalFiles) * 100))
Progressed(st, totalFiles) ==
    [st EXCEPT !.processedFiles = @ + 1,
               !.progress = Append(@, ((st.processedFiles + 1) * 100) \div totalFiles)]

\* The body of the forEach callback for entry number i: a directory is
\* counted at once, a readData that throws is counted in the catch block, any
\* other read is left to its callback.
Visit(st, entry, i, totalFiles) ==
    IF ~entry.is_file
    THEN Complete([Progressed(st, totalFiles) EXCEPT !.reads[i] = "skipped"], totalFiles)
    ELSE IF entry.read = "throws"
    THEN Complete([st EXCEPT !.reads[i] = "threw"], totalFiles)
    ELSE [st EXCEPT !.reads[i] = "reading"]

\* archive.entries.forEach from entry number i on.
RECURSIVE ForEach(_, _, _)
ForEach(st, entries, i) ==
    IF i > Len(entries) THEN st
    ELSE ForEach(Visit(st, entries[i], i, Len(entries)), entries, i + 1)

\* The locals as one record, and the record written back.
Locals ==
    [processedFiles |-> processedFiles, completedFiles |-> completedFiles, closed |-> closed,
     promise |-> promise, reads |-> reads, progress |-> progress]

WriteBack(st) ==
    /\ processedFiles' = st.processedFiles
    /\ completedFiles' = st.completedFiles
    /\ closed' = st.closed
    /\ promise' = st.promise
    /\ reads' = st.reads
    /\ progress' = st.progress

\* The parts of the state a call of extractWithUncompress has no part in.
UncompressFrame == UNCHANGED <<scanOnlyVars, overlapVars, decodeVars, uiVars>>

\* extractWithUncompress(file) is about to be called.
InitUncompress ==
    /\ call = "start"
    /\ promise = Pending
    /\ timeoutId = "none"
    /\ archive = Null
    /\ reads = <<>>
    /\ completedFiles = 0
    /\ closed = 0
    /\ extractedFiles = <<>>
    /\ processedFiles = 0
    /\ progress = <<>>
    /\ buffer = [blocks |-> <<>>, tail |-> <<>>]
    /\ origin = <<>>
    /\ pc = "idle"
    /\ offset = 0
    /\ stored = <<>>
    /\ iterations = 0
    /\ stop = "none"
    /\ waiting = <<>>
    /\ started = 0
    /\ DecodeAtRest
    /\ UiAtRest

\* The executor of the promise runs: the timer is set and the format loader
\* is called, which takes the callback or throws.
CallUncompress ==
    /\ call = "start"
    /\ \/ /\ call' = "loading"
          /\ timeoutId' = "armed"
          /\ UNCHANGED promise
       \/ /\ call' = "returned"
          /\ timeoutId' = "cleared"
          /\ promise' = Reject(promise, "load")
    /\ UNCHANGED <<archive, reads, completedFiles, closed, extractedFiles, processedFiles,
                   progress>>
    /\ UncompressFrame

\* The formats are loaded: the callback sets the timer of 100 ms.
FormatsLoaded ==
    /\ call = "loading"
    /\ call' = "delay"
    /\ UNCHANGED <<promise, timeoutId, archive, reads, completedFiles, closed, extractedFiles,
                   processedFiles, progress>>
    /\ UncompressFrame

\* processFile runs: archiveOpenFile takes the callback or throws.
processFile ==
    /\ call = "delay"
    /\ \/ /\ call' = "opening"
          /\ UNCHANGED <<promise, timeoutId>>
       \/ /\ call' = "returned"
          /\ timeoutId' = clearTimeout(timeoutId)
          /\ promise' = Reject(promise, "process")
    /\ UNCHANGED <<archive, reads, completedFiles, closed, extractedFiles, processedFiles,
                   progress>>
    /\ UncompressFrame

\* The 30 seconds are over before the timer was cleared.
TimeoutFires ==
    /\ timeoutId = "armed"
    /\ timeoutId' = "fired"
    /\ promise' = Reject(promise, "timeout")
    /\ UNCHANGED <<call, archive, reads, completedFiles, closed, extractedFiles,
                   processedFiles, progress>>
    /\ UncompressFrame

\* The callback of archiveOpenFile runs: the timer is cleared; an error or a
\* missing archive rejects; an archive without entries is closed and resolves;
\* otherwise every entry is visited.
OpenCallback ==
    /\ call = "opening"
    /\ call' = "opened"
    /\ timeoutId' = clearTimeout(timeoutId)
    /\ \E outcome \in OpenOutcomes :
          IF outcome.error
          THEN /\ promise' = Reject(promise, "open")
               /\ UNCHANGED <<archive, reads, completedFiles, closed, processedFiles, progress>>
          ELSE IF outcome.entries = Null
          THEN /\ promise' = Reject(promise, "damaged")
               /\ UNCHANGED <<archive, reads, completedFiles, closed, processedFiles, progress>>
          ELSE LET entries == outcome.entries.list
               IN  /\ archive' = outcome.entries
                   /\ IF Len(entries) = 0
                      THEN /\ closed' = closed + 1
                           /\ promise' = Resolve(promise)
                           /\ UNCHANGED <<reads, completedFiles, processedFiles, progress>>
                      ELSE WriteBack(ForEach([Locals EXCEPT
                                                 !.reads = [i \in 1..Len(entries) |-> "none"]],
                                             entries, 1))
    /\ UNCHANGED extractedFiles
    /\ UncompressFrame

\* The callback of readData runs for an entry whose read is under way: data
\* is stored under the name of the entry, an error is logged, and the entry is
\* counted.
ReadCallback ==
    /\ call = "opened"
    /\ archive # Null
    /\ \E i \in 1..Len(reads) :
          LET entry == archive.list[i]
              totalFiles == Len(archive.list)
          IN  /\ reads[i] = "reading"
              /\ extractedFiles' = IF entry.read = "data"
                                   THEN ObjectSet(extractedFiles, entry.name,
                                                  PageEntry(entry.name))
                                   ELSE extractedFiles
              /\ WriteBack(Complete(Progressed([Locals EXCEPT !.reads[i] = "delivered"],
                                               totalFiles), totalFiles))
    /\ UNCHANGED <<call, timeoutId, archive>>
    /\ UncompressFrame

NextUncompress ==
    \/ CallUncompress
    \/ FormatsLoaded
    \/ processFile
    \/ TimeoutFires
    \/ OpenCallback
    \/ ReadCallback

SpecUncompress == InitUncompress /\ [][NextUncompress]_vars

\* ---------------------------------------------------------------- properties
\* A step that parses one header and stays in the loop.
ParseStep == pc = "scan" /\ pc' = "scan" /\ iterations' = iterations + 1

\* The block the cursor stands on, as the input was composed.
CursorBlock == buffer.blocks[(offset \div BlockSize) + 1]

Terminated == pc \in {"done", "error"}

\* Text that is a base-8 number: one or more of the digits 0..7, nothing else.
IsOctalText(s) == s # <<>> /\ \A i \in 1..Len(s) : s[i] >= 48 /\ s[i] <= 55

\* C1: the scan loop terminates for every buffer: on every iteration that does
\* not leave the loop the cursor strictly increases.
C1_CursorStrictlyIncreases ==
    [][(pc = "scan" /\ pc' = "scan") => offset' > offset]_vars

\* C2: for a regularly built archive (headers of regular files with distinct
\* non-empty names and size > 0, each followed by its padded payload, then one
\* zero block) extractTar returns normally with exactly one stored entry per
\* header, under that header's name and with that header's payload as content.
C2_OneEntryPerHeader ==
    (origin # <<>> /\ Terminated) =>
        /\ pc = "done"
        /\ Len(stored) = Len(origin)
        /\ ObjectKeys(extractedFiles) = { origin[i].name : i \in 1..Len(origin) }
        /\ \A i \in 1..Len(origin) :
              extractedFiles[origin[i].name].content = EntryPayload(origin[i])

\* C3 (as claimed): a parsed header is emitted if and only if its type flag is
\* 0 or 48 and its parsed size is > 0; no other field decides.
C3_EmittedIffTypeAndSize ==
    [][ParseStep =>
          ((stored' # stored) <=>
              /\ getUint8(buffer, offset + TypeFlagOffset) \in {0, 48}
              /\ fileSize(buffer, offset) > 0)]_vars

\* C3 (amended): a parsed header is emitted if and only if its type flag is
\* 0 or 48, its parsed size is > 0 and its name does not end in "/".
C3_EmittedIffRegularFile ==
    [][ParseStep =>
          ((stored' # stored) <=>
              /\ getUint8(buffer, offset + TypeFlagOffset) \in {0, 48}
              /\ fileSize(buffer, offset) > 0
              /\ CursorBlock.name[Len(CursorBlock.name)] # Slash)]_vars

\* A header named "d/" with type flag 48 and size 5 was parsed after a stored
\* entry and was not stored itself.
C3_Witness ==
    /\ Len(buffer.blocks) = 3
    /\ buffer.blocks[3] = Block(NameDir, Size5, TypeZeroChar)
    /\ iterations = 2
    /\ offset = 4 * BlockSize
    /\ Len(stored) = 1

\* C4: when the bytes of the size field up to the first NUL or space are empty
\* or are not a base-8 number, the size is 0: the entry is not emitted and the
\* cursor advances by exactly 512 for that header.
C4_InvalidOctalIsZero ==
    [][(ParseStep /\ ~IsOctalText(sizeStr(buffer, offset))) =>
          (offset' = offset + BlockSize /\ stored' = stored)]_vars

\* C5: every parsed header of size s advances the cursor by exactly
\* 512 + ceil(s / 512) * 512, and the cursor is a non-negative multiple of 512
\* at the start of every iteration.
C5_AdvanceAndAlignment ==
    [][ /\ ParseStep =>
             offset' = offset + BlockSize
                       + MathCeilDiv(fileSize(buffer, offset), BlockSize) * BlockSize
        /\ pc' = "scan" => (offset' >= 0 /\ offset' % BlockSize = 0) ]_vars

\* C6: the scan is left for lack of bytes only when fewer than 512 bytes remain
\* between the cursor and the end of the buffer; with 512 or more the block at
\* the cursor is read.
C6_StopsOnlyBelowOneBlock ==
    stop = "short" => byteLength(buffer) - offset < BlockSize

\* C7: extractTar raises an error if and only if its scan emitted no entry.
C7_ErrorIffNothingEmitted ==
    Terminated => (pc = "error" <=> stored = <<>>)

\* C8: a header with a corrupt size field is treated as size 0 (the cursor
\* moves on by 512), raises nothing, and the regular entry "a.txt" that follows
\* it is still emitted with its content.
CorruptSizes == { SizeOneX, SizeX, SizeMinus512, SizeMinus2048 }

C8_CorruptHeaderIsSkipped ==
    (/\ Len(buffer.blocks) = 3
     /\ buffer.tail # <<>>
     /\ buffer.blocks[1].name = NameC
     /\ buffer.blocks[1].size \in CorruptSizes
     /\ buffer.blocks[2] = Block(NameATxt, Size5, TypeZeroChar)
     /\ buffer.blocks[3] = Block(Hello, <<>>, TypeNul)) =>
        /\ pc # "error"
        /\ iterations = 1 => offset = BlockSize
        /\ pc \in {"check", "done"} =>
              /\ NameATxt \in ObjectKeys(extractedFiles)
              /\ extractedFiles[NameATxt].content = Hello

\* C9: the content of every emitted entry is exactly the `size` bytes of the
\* buffer that start right after the entry's header, so its length is the size
\* parsed from the header.
C9_ContentIsSizeBytes ==
    \A k \in 1..Len(stored) :
        LET at == stored[k].at
            content == stored[k].entry.content
        IN  /\ Len(content) = fileSize(buffer, at)
            /\ \A i \in 1..Len(content) :
                  content[i] = getUint8(buffer, at + BlockSize + i - 1)

\* The cursor stands on a block of the buffer whose bytes are all zero.
AtZeroBlock ==
    /\ pc = "scan"
    /\ offset >= 0
    /\ offset % BlockSize = 0
    /\ offset \div BlockSize < Len(buffer.blocks)
    /\ CursorBlock = ZeroBlock

\* C10: the first all-zero block at the cursor ends the scan: the loop is left
\* on that step, and from then on no header is parsed and no entry emitted,
\* whatever follows the block.
C10_ZeroBlockEndsScan ==
    [][ /\ AtZeroBlock =>
             /\ pc' = "check"
             /\ UNCHANGED <<offset, iterations, stored, extractedFiles, processedFiles>>
        /\ stop = "zero" =>
             UNCHANGED <<offset, iterations, stored, extractedFiles, processedFiles, stop>>
      ]_vars

\* The scan ended on a zero block at offset 0 although the header of "a.txt"
\* and its payload follow; nothing was parsed.
C10_Witness ==
    /\ stop = "zero"
    /\ Terminated
    /\ offset = 0
    /\ iterations = 0
    /\ stored = <<>>
    /\ Len(buffer.blocks) = 3
    /\ buffer.blocks[2] = Block(NameATxt, Size5, TypeZeroChar)
    /\ buffer.blocks[3] = Block(Hello, <<>>, TypeNul)

\* The header at the cursor is read, is not all zero, and the bytes of its name
\* field up to the first NUL decode to the empty string.
AtEmptyName ==
    /\ pc = "scan"
    /\ LoopCondition(buffer, offset)
    /\ offset >= 0
    /\ offset % BlockSize = 0
    /\ offset \div BlockSize < Len(buffer.blocks)
    /\ CursorBlock # ZeroBlock
    /\ smartDecodeFileName(CursorBlock.name) = <<>>

\* C11: the name of an entry is the decode of the bytes of header field 0..99
\* up to the first NUL; when that name is empty in a block that is not all zero
\* the scan stops on that step, and neither that entry nor any later one is
\* emitted.
C11_EmptyNameEndsScan ==
    [][ /\ (ParseStep /\ stored' # stored) =>
             stored'[Len(stored')].entry.path = smartDecodeFileName(CursorBlock.name)
        /\ AtEmptyName =>
             /\ pc' = "check"
             /\ UNCHANGED <<offset, iterations, stored, extractedFiles, processedFiles>>
        /\ stop = "empty" =>
             UNCHANGED <<offset, iterations, stored, extractedFiles, processedFiles, stop>>
      ]_vars

\* The scan ended on a header with an empty name field at offset 0, and was
\* finished with nothing emitted, although the header of "a.txt" and its
\* payload follow.
C11_Witness ==
    /\ stop = "empty"
    /\ Terminated
    /\ offset = 0
    /\ stored = <<>>
    /\ Len(buffer.blocks) = 3
    /\ buffer.blocks[1] = Block(<<>>, Size5, TypeZeroChar)
    /\ buffer.blocks[2] = Block(NameATxt, Size5, TypeZeroChar)
    /\ buffer.blocks[3] = Block(Hello, <<>>, TypeNul)

\* The paths of the entries emitted by the scan of the call that is running.
StoredPaths == { stored[k].entry.path : k \in 1..Len(stored) }

\* C12: overlapping extractions do not influence each other: when the scan of
\* one archive is over, the entries reported are exactly the ones that scan
\* emitted, and the zero-entries error is raised exactly when it emitted none.
C12_ReportDependsOnOwnArchive ==
    [][(pc = "check" /\ pc' # "check") =>
          /\ ObjectKeys(extractedFiles') = StoredPaths
          /\ pc' = "error" <=> stored = <<>>]_vars

\* A string: a finite sequence of UTF-16 code units.
IsString(str) == DOMAIN str = 1..Len(str) /\ \A i \in 1..Len(str) : str[i] \in Nat

\* C13: smartDecodeFileName never raises: for every byte buffer, the empty one
\* included, no exception leaves the call, the call is never stuck before it
\* returns, and what it returns is a string.
C13_NeverRaises ==
    /\ dpc # "thrown"
    /\ dpc \in {"call", "utf8", "legacy"} => ENABLED NextDecode
    /\ dpc = "returned" => IsString(result)

\* The call on the single byte 0xFF returned after the strict UTF-8 decoder
\* threw and all four legacy decodes were turned down.
C13_Witness ==
    /\ input = <<255>>
    /\ dpc = "returned"
    /\ tried = <<"utf-8", "gbk", "gb2312", "big5", "shift-jis", "latin1">>
    /\ IsString(result)

\* At least one byte of the input is above 127.
NonAscii(bytes) == \E i \in 1..Len(bytes) : bytes[i] > 127

\* C14: the decoders are tried in order and the first success wins: for a
\* buffer with a byte above 127 that is valid under strict UTF-8 (every UTF-8
\* encoding of a string is) the strict UTF-8 decode is returned and no legacy
\* decoder is run, whatever the legacy decoders would give.
C14_Utf8WinsWhenValid ==
    /\ (encoded # <<>>) => Utf8StrictDecode(input).ok
    /\ (dpc = "returned" /\ NonAscii(input) /\ Utf8StrictDecode(input).ok) =>
          /\ result = Utf8StrictDecode(input).str
          /\ tried = <<"utf-8">>

\* C3 A9 was returned as U+00E9 although its GBK decode passes the ratio test
\* and is another string.
C14_Witness ==
    /\ input = <<195, 169>>
    /\ dpc = "returned"
    /\ result = <<233>>
    /\ RatioAccepted(LegacyDecode("gbk", input))
    /\ LegacyDecode("gbk", input) # result

\* The order of the legacy encodings as claimed, and the positions in it whose
\* decode of the input passes the replacement-ratio test.
ClaimedOrder == <<"gbk", "gb2312", "big5", "shift-jis">>

Passing(bytes) ==
    { j \in 1..Len(ClaimedOrder) : RatioAccepted(LegacyDecode(ClaimedOrder[j], bytes)) }

FirstPassing(bytes) == CHOOSE j \in Passing(bytes) : \A m \in Passing(bytes) : j <= m

\* C15: for a non-ASCII buffer that strict UTF-8 rejects, the result is the
\* decode of the first encoding in the order GBK, GB2312, Big5, Shift-JIS whose
\* decode passes the replacement-ratio test, reached after exactly the
\* encodings before it were tried; Latin-1 is returned only when none passes.
C15_FirstPassingLegacyWins ==
    (dpc = "returned" /\ NonAscii(input) /\ ~Utf8StrictDecode(input).ok) =>
        IF Passing(input) = {}
        THEN tried = <<"utf-8">> \o ClaimedOrder \o <<"latin1">>
        ELSE /\ result = LegacyDecode(ClaimedOrder[FirstPassing(input)], input)
             /\ tried = <<"utf-8">> \o SubSeq(ClaimedOrder, 1, FirstPassing(input))

\* FF followed by five times 88 62 was turned down as GBK and as GB2312 (one
\* U+FFFD in six code units) and returned as Big5 (one in eleven).
C15_Witness ==
    /\ input = Big5Pairs
    /\ dpc = "returned"
    /\ tried = <<"utf-8", "gbk", "gb2312", "big5">>
    /\ result = LegacyDecode("big5", input)
    /\ Len(result) = 11

\* C4 E3 was returned as its GBK decode, U+4F60.
C15_GbkExample ==
    input = GbkNi /\ dpc = "returned" /\ result = <<20320>> /\ tried = <<"utf-8", "gbk">>

\* A1 30 was returned as its Shift_JIS decode after GBK, GB2312 and Big5.
C15_ShiftJisExample ==
    /\ input = <<161, 48>>
    /\ dpc = "returned"
    /\ result = <<65377, 48>>
    /\ tried = <<"utf-8", "gbk", "gb2312", "big5", "shift-jis">>

\* Number of U+FFFD code units of a string.
RECURSIVE CountReplacements(_)
CountReplacements(str) ==
    IF str = <<>> THEN 0
    ELSE (IF Head(str) = 65533 THEN 1 ELSE 0) + CountReplacements(Tail(str))

\* C16: a legacy decode is accepted exactly when its number of U+FFFD code
\* units divided by its length is strictly below 0.1: with a ratio of exactly
\* 0.1 it is turned down, and an empty decode is turned down without raising.
C16_AcceptedIffBelowTenth ==
    [][(dpc = "legacy" /\ encodingIndex <= Len(ClaimedOrder)) =>
          LET decoded == LegacyDecode(ClaimedOrder[encodingIndex], input)
          IN  /\ dpc' = "returned" <=>
                    (Len(decoded) # 0 /\ 10 * CountReplacements(decoded) < Len(decoded))
              /\ dpc' = "returned" => result' = decoded
              /\ dpc' # "returned" => (dpc' = "legacy" /\ encodingIndex' = encodingIndex + 1)
      ]_vars

\* FF and nine 'A' decode in each legacy encoding to ten code units with one
\* U+FFFD, a ratio of exactly 0.1: all four were turned down and the Latin-1
\* fallback returned.
C16_Witness ==
    /\ input = RatioTenth
    /\ dpc = "returned"
    /\ tried = <<"utf-8">> \o ClaimedOrder \o <<"latin1">>
    /\ \A j \in 1..Len(ClaimedOrder) :
          /\ Len(LegacyDecode(ClaimedOrder[j], input)) = 10
          /\ CountReplacements(LegacyDecode(ClaimedOrder[j], input)) = 1

\* FF and ten 'A', one U+FFFD in eleven code units, was returned as GBK.
C16_BelowTenthExample ==
    /\ input = RatioEleventh
    /\ dpc = "returned"
    /\ tried = <<"utf-8", "gbk">>
    /\ CountReplacements(result) = 1

\* A legacy decode that is tested is never empty: the loop is reached with at
\* least one byte above 127, and every byte ends up in some code unit.
LegacyDecodeNonEmpty ==
    \A j \in 1..Len(ClaimedOrder) : NonAscii(input) => Len(LegacyDecode(ClaimedOrder[j], input)) > 0

\* C17: for every buffer whose bytes are all <= 127, the empty one included,
\* the call returns at once, with no decoder run but the ASCII one, the string
\* whose i-th code unit equals the i-th byte.
C17_AsciiIsIdentity ==
    (dpc = "returned" /\ ~NonAscii(input)) =>
        /\ tried = <<"ascii">>
        /\ Len(result) = Len(input)
        /\ \A i \in 1..Len(input) : result[i] = input[i]

\* The bytes 'A', DEL, '0' were returned as the code units 65, 127, 48.
C17_Witness ==
    /\ input = <<65, 127, 48>>
    /\ dpc = "returned"
    /\ result = <<65, 127, 48>>
    /\ tried = <<"ascii">>

\* The empty buffer was returned as the empty string.
C17_EmptyExample ==
    input = <<>> /\ dpc = "returned" /\ result = <<>> /\ tried = <<"ascii">>

\* C18: for every string s with at least one non-ASCII code point, the call on
\* the UTF-8 encoding of s returns s.
C18_Utf8RoundTrip ==
    (dpc = "returned" /\ \E i \in 1..Len(encoded) : encoded[i] > 127) =>
        result = StringUnits(encoded)

\* The same for the strings that do not begin with U+FEFF.
C18_RoundTripWithoutLeadingBom ==
    (dpc = "returned" /\ (\E i \in 1..Len(encoded) : encoded[i] > 127)
                      /\ encoded[1] # 65279) =>
        result = StringUnits(encoded)

\* C19: when strict UTF-8 rejects the buffer and none of the four legacy
\* decodes is accepted, the Latin-1 decode is returned: one code unit per
\* byte, so its length is the number of input bytes, and each byte from 0xA0
\* on is its own code unit.
C19_FallbackIsOneUnitPerByte ==
    (dpc = "returned" /\ NonAscii(input) /\ ~Utf8StrictDecode(input).ok
                      /\ Passing(input) = {}) =>
        /\ tried[Len(tried)] = "latin1"
        /\ Len(result) = Len(input)
        /\ \A i \in 1..Len(input) :
              (input[i] <= 127 \/ input[i] >= 160) => result[i] = input[i]

\* 81 FF 41 was turned down by all four legacy decoders and returned by the
\* fallback with three code units.
C19_Witness ==
    /\ input = <<129, 255, 65>>
    /\ dpc = "returned"
    /\ tried = <<"utf-8">> \o ClaimedOrder \o <<"latin1">>
    /\ result = <<129, 255, 65>>
    /\ Len(LegacyDecode("gbk", input)) = 2

\* C21: every value handed to updateProgress during an extraction is an
\* integer in the range 0..100.
C21_ProgressWithinRange ==
    \A k \in 1..Len(progress) : progress[k] \in 0..100

\* The same for the first entry a scan stores.
C21_FirstProgressWithinRange ==
    Len(progress) >= 1 => progress[1] \in 0..100

\* C28: every byte read of extractTar is at an index within [0, byteLength):
\* whenever the loop is entered the block at the cursor, from its first byte
\* to its type flag, lies within the buffer, and no read raises.
C28_ReadsWithinBuffer ==
    /\ (pc = "scan" /\ LoopCondition(buffer, offset)) =>
          (offset >= 0 /\ offset + TypeFlagOffset < byteLength(buffer))
    /\ stop # "range"

\* The same while the cursor has not gone below 0.
C28_ReadsWithinBufferFromZeroOn ==
    (pc = "scan" /\ LoopCondition(buffer, offset) /\ offset >= 0) =>
        offset + BlockSize < byteLength(buffer)

\* The position in stored of the last emitted header with the given path.
LastStored(path) ==
    CHOOSE k \in 1..Len(stored) :
        /\ stored[k].entry.path = path
        /\ \A m \in 1..Len(stored) : stored[m].entry.path = path => m <= k

\* C29: the entries are kept in a map keyed by the full path: the stored
\* entries are as many as the distinct emitted names, and of several emitted
\* headers with one name the content of the last is kept.
C29_OneEntryPerDistinctName ==
    /\ ObjectKeys(extractedFiles) = StoredPaths
    /\ \A path \in StoredPaths :
          path \in ObjectKeys(extractedFiles) =>
              extractedFiles[path] = stored[LastStored(path)].entry

\* The same for scans that emit no header named "__proto__".
C29_OneEntryPerDistinctPlainName ==
    (ProtoKey \notin StoredPaths) =>
        /\ ObjectKeys(extractedFiles) = StoredPaths
        /\ \A path \in StoredPaths :
              extractedFiles[path] = stored[LastStored(path)].entry

\* Two headers named "a.txt" were emitted with different contents and one
\* entry is kept.
C29_DuplicateExample ==
    /\ Len(stored) = 2
    /\ stored[1].entry.path = NameATxt
    /\ stored[2].entry.path = NameATxt
    /\ stored[1].entry.content # stored[2].entry.content
    /\ ObjectKeys(extractedFiles) = {NameATxt}
    /\ extractedFiles[NameATxt].content = stored[2].entry.content

\* A step in which a handler that takes a list of files has run.
FilesHandled(name) ==
    /\ events' = events + 1
    /\ "files" \in DOMAIN lastEvent'
    /\ lastEvent'.name = name

\* A step that shows the error popup and starts nothing.
Rejected ==
    /\ errorPopup' = "flex"
    /\ jobs' = jobs
    /\ UNCHANGED <<uploadSection, processingSection, resultSection, currentFile, extractedFiles>>

\* A step that shows the processing section and starts a job of one of the kinds.
Accepted(kinds) ==
    /\ Len(jobs') = Len(jobs) + 1
    /\ jobs'[Len(jobs')].kind \in kinds
    /\ uploadSection' = "none"
    /\ processingSection' = "block"
    /\ resultSection' = "none"

EndsWithExtension(name, ext) ==
    /\ Len(name) > Len(ext)
    /\ toLowerCase(SubSeq(name, Len(name) - Len(ext), Len(name))) = <<Dot>> \o ext

\* The extractor the claim assigns to an extension.
ClaimedExtractor(ext) ==
    IF ext = ExtZip THEN "extractZip" ELSE IF ext = ExtGz THEN "extractGzip" ELSE "extractTar"

\* What a run of handleFiles on a first file within the size limit has to do.
HandledByExtension(file) ==
    IF \E ext \in supportedFormats : EndsWithExtension(file.name, ext)
    THEN \A ext \in supportedFormats :
            EndsWithExtension(file.name, ext) =>
                /\ Accepted({ClaimedExtractor(ext)})
                /\ jobs'[Len(jobs')].file = file
                /\ currentFile' = file
    ELSE Rejected

\* C23: handleFiles starts an extraction for the first file of the list only,
\* and only when the name of that file ends in .zip, .gz or .tar in any case of
\* letters, with extractZip, extractGzip and extractTar as the extractors;
\* with any other name the popup is shown, nothing starts, and currentFile,
\* extractedFiles and the sections stay as they were.
C23_OnlySupportedExtensions ==
    [][ FilesHandled("handleFiles") /\ lastEvent'.files[1].size <= MAX_FILE_SIZE
            => HandledByExtension(lastEvent'.files[1]) ]_vars

\* The same for the files whose name has a dot in it.
C23_OnlySupportedExtensionsOfDottedNames ==
    [][ ( /\ FilesHandled("handleFiles")
          /\ lastEvent'.files[1].size <= MAX_FILE_SIZE
          /\ \E i \in 1..Len(lastEvent'.files[1].name) : lastEvent'.files[1].name[i] = Dot )
            => HandledByExtension(lastEvent'.files[1]) ]_vars

\* A file in upper case has been dispatched to extractTar, and of a list of
\* two files only the first was looked at.
C23_UpperCaseTarStarted ==
    /\ lastEvent = [name |-> "handleFiles", files |-> <<FileTarUpper, FileGz>>]
    /\ Len(jobs) = 1
    /\ jobs[1].kind = "extractTar"
    /\ jobs[1].file = FileTarUpper

\* The step in which the download-all button is clicked.
DownloadClicked == events' = events + 1 /\ lastEvent' = [name |-> "downloadAllFiles"]

\* The step in which the generateAsync of a download settles.
DownloadSettled ==
    /\ Len(jobs') < Len(jobs)
    /\ "keys" \in DOMAIN lastEvent'
    /\ lastEvent'.name = "generateAsync"

\* A download fails: the popup is shown, nothing is downloaded, and the map and
\* the sections are as they were.
DownloadFailed ==
    /\ errorPopup' = "flex"
    /\ UNCHANGED <<downloads, extractedFiles, prototype, uploadSection, processingSection,
                   resultSection>>

\* What downloadAllFiles has to do in the step of the click and in the step
\* in which the ZIP is ready.
DownloadsAsClaimed ==
    /\ DownloadClicked =>
          IF Cardinality(ObjectKeys(extractedFiles)) = 1
          THEN \E key \in ObjectKeys(extractedFiles) :
                  downloads' = Append(downloads, [kind |-> "file",
                                                   name |-> extractedFiles[key].name,
                                                   paths |-> {key}])
          ELSE \/ /\ Len(jobs') = Len(jobs) + 1
                  /\ jobs'[Len(jobs')].kind = "downloadAllFiles"
                  /\ jobs'[Len(jobs')].file.keys = ObjectKeys(extractedFiles)
                  /\ UNCHANGED <<downloads, errorPopup>>
               \/ DownloadFailed
    /\ DownloadSettled =>
          \/ /\ downloads' =
                    Append(downloads,
                           [kind |-> "zip",
                            name |-> IF currentFile = Null THEN FilesZip
                                     ELSE StripExtension(currentFile.name) \o ExtractedSuffix,
                            paths |-> lastEvent'.keys])
             /\ UNCHANGED <<extractedFiles, uploadSection, processingSection, resultSection>>
          \/ DownloadFailed

\* C24: downloadAllFiles downloads the file itself, under its name, when the
\* map has one entry; otherwise it puts every entry of the map, and nothing
\* else, under its path into a ZIP named after currentFile without its last
\* extension plus "_extracted.zip", or "files.zip" without a currentFile; when
\* building the ZIP fails the popup is shown and the map and the sections stay.
C24_DownloadAllBundlesEveryEntry == [][DownloadsAsClaimed]_vars

\* The same as long as no entry named "__proto__" has been stored.
C24_DownloadAllBundlesEveryPlainEntry == [][prototype = Null => DownloadsAsClaimed]_vars

\* A ZIP of the two entries of a.zip has been downloaded as a_extracted.zip.
C24_BundleDownloaded ==
    /\ currentFile = FileZip
    /\ downloads = <<[kind |-> "zip",
                      name |-> <<97>> \o ExtractedSuffix,
                      paths |-> {NameATxt, NameB}]>>

\* The step in which an extractor raises: the file cannot be read as what its
\* extension says, or the scan of a tar file leaves the map without a key.
ExtractorRaises ==
    /\ Len(jobs') < Len(jobs)
    /\ "file" \in DOMAIN lastEvent'
    /\ lastEvent'.name \in {"extractZip", "extractGzip", "extractTar"}
    /\ \/ ~lastEvent'.file.ok
       \/ lastEvent'.name = "extractTar" /\ ObjectKeys(extractedFiles') = {}

\* C25: in the step in which an extraction fails the popup is shown, the
\* upload section is displayed and the processing and the result section are
\* hidden.
C25_FailedExtractionResets ==
    [][ ExtractorRaises =>
            /\ errorPopup' = "flex"
            /\ uploadSection' = "block"
            /\ processingSection' = "none"
            /\ resultSection' = "none" ]_vars

\* The extraction of a tar file without a readable entry has failed.
C25_EmptyTarFailed ==
    /\ lastEvent = [name |-> "extractTar", file |-> FileEmptyTar]
    /\ ObjectKeys(extractedFiles) = {}
    /\ jobs = <<>>
    /\ errorPopup = "flex"
    /\ uploadSection = "block"
    /\ resultSection = "none"

\* The sections whose display is "block".
Displayed ==
    { section \in { <<"upload", uploadSection>>, <<"processing", processingSection>>,
                    <<"result", resultSection>> } : section[2] = "block" }

\* One of showProcessingUI, showResults and resetInterface has run.
SectionsSet == <<uploadSection, processingSection, resultSection>> # <<"css", "css", "css">>

\* C27: once one of showProcessingUI, showResults and resetInterface has run,
\* exactly one of the upload, the processing and the result section is
\* displayed, whatever events and completions follow.
C27_ExactlyOneSectionDisplayed == SectionsSet => Cardinality(Displayed) = 1

\* At least one section is displayed, and never the processing section
\* together with another.
C27_ProcessingSectionAlone ==
    SectionsSet =>
        /\ Displayed # {}
        /\ processingSection = "block" => Cardinality(Displayed) = 1

\* Every entry of the archive handed to the open callback is counted: skipped
\* as a directory, delivered by the read callback, or its read threw.
EveryEntryCompleted ==
    /\ archive # Null
    /\ \A i \in 1..Len(archive.list) : reads[i] \in {"skipped", "delivered", "threw"}

====
